---------------------------- MODULE Spec2Model ----------------------------
(***************************************************************************)
(* slAIde: template extraction, capacity estimation, content binding and   *)
(* overflow enforcement (server/services/ai_service.py,                    *)
(* server/services/pptx_service.py, server/utils/slide_cloner.py).         *)
(*                                                                         *)
(* Text is a sequence of one-character strings.  Lengths are measured in   *)
(* units of 45720 EMU (0.05 inch, 3.6 pt): the default text-frame margins  *)
(* of the code are 2 units (91440 EMU) and 1 unit (45720 EMU), the default *)
(* slide is 200 x 150 units.  Font sizes are integer points, line spacing  *)
(* is in hundredths.                                                       *)
(***************************************************************************)
EXTENDS Integers, Sequences, FiniteSets, TLC

Max(a, b) == IF a >= b THEN a ELSE b
Min(a, b) == IF a <= b THEN a ELSE b

(***************************************************************************)
(* Python string primitives used by the services.                          *)
(***************************************************************************)
WS == {" ", "\n"}

RECURSIVE lstrip(_)
lstrip(s) == IF s # <<>> /\ Head(s) \in WS THEN lstrip(Tail(s)) ELSE s

RECURSIVE rstrip(_)
rstrip(s) ==
    IF s # <<>> /\ s[Len(s)] \in WS THEN rstrip(SubSeq(s, 1, Len(s) - 1)) ELSE s

strip(s) == lstrip(rstrip(s))

\* str.split(c) for a one-character separator c
RECURSIVE split(_, _)
split(s, c) ==
    IF \A i \in 1..Len(s) : s[i] # c THEN <<s>>
    ELSE LET k == CHOOSE i \in 1..Len(s) :
                      s[i] = c /\ \A j \in 1..(i - 1) : s[j] # c
         IN  <<SubSeq(s, 1, k - 1)>> \o split(SubSeq(s, k + 1, Len(s)), c)

\* str.splitlines(): no empty last line after a final line break
splitlines(s) ==
    IF s = <<>> THEN <<>>
    ELSE LET p == split(s, "\n")
         IN  IF p[Len(p)] = <<>> THEN SubSeq(p, 1, Len(p) - 1) ELSE p

\* sep.join(parts)
RECURSIVE join(_, _)
join(parts, sep) ==
    IF parts = <<>> THEN <<>>
    ELSE IF Len(parts) = 1 THEN parts[1]
    ELSE parts[1] \o sep \o join(Tail(parts), sep)

\* str.split() without argument: the words between runs of whitespace
RECURSIVE words(_)
words(s) ==
    LET t == lstrip(s)
    IN  IF t = <<>> THEN <<>>
        ELSE LET n == CHOOSE i \in 1..Len(t) :
                          /\ \A j \in 1..i : t[j] \notin WS
                          /\ (i = Len(t) \/ t[i + 1] \in WS)
             IN  <<SubSeq(t, 1, n)>> \o words(SubSeq(t, n + 1, Len(t)))

startswith(s, p) == Len(s) >= Len(p) /\ SubSeq(s, 1, Len(p)) = p

(***************************************************************************)
(* textwrap.wrap(text, width, break_long_words=False,                      *)
(* break_on_hyphens=False): the text is cut into alternating chunks of     *)
(* words and whitespace; chunks are added to a line while they fit; a word *)
(* longer than the width gets a line of its own; whitespace at the start   *)
(* of a later line and at the end of every line is dropped.                *)
(***************************************************************************)
RECURSIVE chunks(_)
chunks(s) ==
    IF s = <<>> THEN <<>>
    ELSE LET blank == Head(s) \in WS
             n == CHOOSE i \in 1..Len(s) :
                      /\ \A j \in 1..i : (s[j] \in WS) = blank
                      /\ (i = Len(s) \/ (s[i + 1] \in WS) # blank)
         IN  <<SubSeq(s, 1, n)>> \o chunks(SubSeq(s, n + 1, Len(s)))

RECURSIVE total_len(_)
total_len(cs) == IF cs = <<>> THEN 0 ELSE Len(Head(cs)) + total_len(Tail(cs))

RECURSIVE flatten(_)
flatten(cs) == IF cs = <<>> THEN <<>> ELSE Head(cs) \o flatten(Tail(cs))

is_blank(c) == \A i \in 1..Len(c) : c[i] \in WS

RECURSIVE wrap_chunks(_, _, _)
wrap_chunks(cs, width, lines) ==
    LET c0 == IF lines # <<>> /\ cs # <<>> /\ is_blank(Head(cs))
              THEN Tail(cs) ELSE cs
    IN  IF c0 = <<>> THEN lines
        ELSE LET k == CHOOSE i \in 0..Len(c0) :
                          /\ total_len(SubSeq(c0, 1, i)) <= width
                          /\ (i = Len(c0)
                              \/ total_len(SubSeq(c0, 1, i + 1)) > width)
                 taken == SubSeq(c0, 1, k)
                 rest == SubSeq(c0, k + 1, Len(c0))
                 long == rest # <<>> /\ Len(Head(rest)) > width /\ taken = <<>>
                 cur1 == IF long THEN <<Head(rest)>> ELSE taken
                 rest1 == IF long THEN Tail(rest) ELSE rest
                 cur2 == IF cur1 # <<>> /\ is_blank(cur1[Len(cur1)])
                         THEN SubSeq(cur1, 1, Len(cur1) - 1) ELSE cur1
             IN  wrap_chunks(rest1, width,
                             IF cur2 # <<>> THEN Append(lines, flatten(cur2))
                             ELSE lines)

textwrap_wrap(text, width) == wrap_chunks(chunks(text), width, <<>>)

(***************************************************************************)
(* AIService._wrap_text_into_lines                                         *)
(***************************************************************************)
BulletPrefixes == {<<"-", " ">>, <<"*", " ">>}

\* the lines of a bullet paragraph: the marker with the first wrapped line,
\* the others indented by two spaces
bullet_lines(bullet_prefix, wrapped) ==
    IF wrapped = <<>> THEN <<strip(bullet_prefix)>>
    ELSE <<bullet_prefix \o wrapped[1]>>
         \o [i \in 1..(Len(wrapped) - 1) |-> <<" ", " ">> \o wrapped[i + 1]]

plain_lines(stripped, wrapped) ==
    IF wrapped # <<>> THEN wrapped ELSE <<stripped>>

\* one paragraph, already stripped and not blank
_wrap_stripped(stripped, is_bullet, chars_per_line) ==
    IF is_bullet
    THEN bullet_lines(SubSeq(stripped, 1, 2),
                      textwrap_wrap(strip(SubSeq(stripped, 3, Len(stripped))),
                                    Max(8, chars_per_line - 2)))
    ELSE plain_lines(stripped,
                     textwrap_wrap(stripped, Max(8, chars_per_line)))

_wrap_line(raw, chars_per_line) ==
    IF strip(raw) = <<>> THEN <<>>
    ELSE _wrap_stripped(strip(raw),
                        \E q \in BulletPrefixes : startswith(strip(raw), q),
                        chars_per_line)

RECURSIVE _wrap_raw_lines(_, _)
_wrap_raw_lines(raws, chars_per_line) ==
    IF raws = <<>> THEN <<>>
    ELSE _wrap_line(Head(raws), chars_per_line)
         \o _wrap_raw_lines(Tail(raws), chars_per_line)

_wrap_text_into_lines(text, chars_per_line) ==
    LET s == strip(text)
    IN  IF s = <<>> THEN <<>>
        ELSE _wrap_raw_lines(splitlines(s), chars_per_line)

(***************************************************************************)
(* AIService._textbox_metrics_from_props.  props is the 'properties' of a  *)
(* layout placeholder: position (width, height), text_frame_props          *)
(* (margins, 0 = absent), font_props.size (0 = font_props absent) and      *)
(* paragraph_props.line_spacing (hundredths, 0 = absent).  One unit is     *)
(* 3.6 pt, so usable_width_pt * 10 = units * 36; char_width_pt * 10 =      *)
(* font_size * 12; line_height_pt * 10000 = font_size * spacing * 130.     *)
(***************************************************************************)
DefaultMarginLR == 2
DefaultMarginTB == 1
DefaultLineSpacing == 130

\* the function raises ValueError when font_props or its size is missing
_metrics_raises(props) == props.font_size = 0

\* five characters taken off a line that has at least five
chars_per_line_reserving(usable_width, char_width) ==
    IF char_width > 0 /\ (usable_width * 36) \div char_width >= 5
    THEN (usable_width * 36) \div char_width - 5 ELSE 5
\* line 1352: at least five characters, whatever the width
chars_per_line_of(usable_width, char_width) ==
    IF char_width > 0
    THEN Max(5, (usable_width * 36) \div char_width) ELSE 5

\* line 1353 with the floor of one line left out
lines_available_unclamped(usable_height, line_height) ==
    IF line_height > 0
    THEN (usable_height * 36000) \div line_height ELSE 1

\* line 1353: at least one line, whatever the height
lines_available_of(usable_height, line_height) ==
    IF line_height > 0
    THEN Max(1, (usable_height * 36000) \div line_height) ELSE 1

_textbox_metrics_from_props(props) ==
    LET margin_left == IF props.margin_left # 0 THEN props.margin_left
                       ELSE DefaultMarginLR
        margin_right == IF props.margin_right # 0 THEN props.margin_right
                        ELSE DefaultMarginLR
        margin_top == IF props.margin_top # 0 THEN props.margin_top
                      ELSE DefaultMarginTB
        margin_bottom == IF props.margin_bottom # 0 THEN props.margin_bottom
                         ELSE DefaultMarginTB
        usable_width == Max(0, props.width - margin_left - margin_right)
        usable_height == Max(0, props.height - margin_top - margin_bottom)
        line_spacing == IF props.line_spacing # 0 THEN props.line_spacing
                        ELSE DefaultLineSpacing
        char_width == props.font_size * 12
        line_height == Max(props.font_size * Max(line_spacing, 130) * 130,
                           props.font_size * 16000)
    IN  [font_size |-> props.font_size,
         chars_per_line |-> chars_per_line_of(usable_width, char_width),
         lines_available |-> lines_available_of(usable_height, line_height)]

(***************************************************************************)
(* AIService._estimate_text_capacity: the 'chars' it reports.  Without     *)
(* font metadata the fallback scales the box area (EMU^2 / 20000000, i.e.  *)
(* units^2 * 104.5) into 120..2500.                                        *)
(***************************************************************************)
_estimate_text_capacity(props) ==
    IF ~_metrics_raises(props)
    THEN LET m == _textbox_metrics_from_props(props)
             total_chars == Max(0, m.chars_per_line * m.lines_available)
         IN  [chars |-> Max(20, Min(total_chars, 5000)),
              chars_per_line |-> m.chars_per_line,
              lines_available |-> m.lines_available]
    ELSE LET approx_chars ==
                 IF props.width > 0 /\ props.height > 0
                 THEN Max(120, Min(2500,
                          (Min(props.width * props.height, 30) * 1045) \div 10))
                 ELSE 300
         IN  [chars |-> approx_chars,
              chars_per_line |-> Max(20, approx_chars \div 10),
              lines_available |-> 10]

(***************************************************************************)
(* AIService._split_text_to_fit_box (defined when the metrics do not       *)
(* raise): the text as it is when its wrapped lines fit, else the first    *)
(* lines_available wrapped lines and the rest, each joined by line breaks. *)
(***************************************************************************)
split_lines(text, lines, lines_available) ==
    IF Len(lines) <= lines_available
    THEN [fit |-> strip(text), rem |-> <<>>]
    ELSE [fit |-> strip(join(SubSeq(lines, 1, lines_available), <<"\n">>)),
          rem |-> strip(join(SubSeq(lines, lines_available + 1, Len(lines)),
                             <<"\n">>))]

_split_text_to_fit_box(text, props) ==
    split_lines(text,
                _wrap_text_into_lines(
                    text, _textbox_metrics_from_props(props).chars_per_line),
                _textbox_metrics_from_props(props).lines_available)

(***************************************************************************)
(* Layouts.  A layout is [name, placeholders, shapes]; a layout            *)
(* placeholder is [idx, type, name, properties]; a slide of the planner is *)
(* [layout_name, placeholders] with placeholders [idx, type, content,      *)
(* font_size] (font_size 0: the key is absent).                            *)
(***************************************************************************)
SlideWidth == 200
SlideHeight == 150

text_phs(layout) ==
    SelectSeq(layout.placeholders, LAMBDA ph : ph.type = "text")

img_phs(layout) ==
    SelectSeq(layout.placeholders, LAMBDA ph : ph.type = "image")

_calculate_placeholder_area(props) == props.width * props.height

RECURSIVE sum_areas(_)
sum_areas(items) ==
    IF items = <<>> THEN 0
    ELSE _calculate_placeholder_area(Head(items)) + sum_areas(Tail(items))

\* content_area of AIService._calculate_layout_space_utilization
content_area(layout) ==
    sum_areas([i \in 1..Len(layout.placeholders) |->
                  layout.placeholders[i].properties])
    + sum_areas(SelectSeq(layout.shapes, LAMBDA sh :
                    sh.is_design_image
                    \/ sh.type \in {"PICTURE", "TEXT_BOX", "AUTO_SHAPE"}))

\* negative_space_percent > 70, i.e. content_area / slide_area * 100 < 30
negative_space_over_70(layout) ==
    content_area(layout) * 100 < 30 * (SlideWidth * SlideHeight)

\* int(max(0, negative_space - 50) * 50)
negative_space_penalty(layout) ==
    LET slide_area == SlideWidth * SlideHeight
        c == content_area(layout)
    IN  IF c * 2 >= slide_area THEN 0
        ELSE 2500 - ((5000 * c + slide_area - 1) \div slide_area)

\* is_title_box of _enforce_zero_overflow_by_splitting, and the same test
\* in _pick_best_text_continuation_layout
is_title_box(layout_ph) ==
    LET props == layout_ph.properties
        cap == _estimate_text_capacity(props)
        font_size == IF props.font_size = 0 THEN 18 ELSE props.font_size
    IN  font_size > 32 \/ (cap.chars < 150 /\ font_size > 24)

RECURSIVE sum_chars(_)
sum_chars(phs) ==
    IF phs = <<>> THEN 0
    ELSE _estimate_text_capacity(Head(phs).properties).chars
         + sum_chars(Tail(phs))

content_lps_of(layout) ==
    SelectSeq(text_phs(layout), LAMBDA lp : ~is_title_box(lp))

title_lps_of(layout) ==
    SelectSeq(text_phs(layout), LAMBDA lp : is_title_box(lp))

\* a layout the loop of _pick_best_text_continuation_layout scores
continuation_candidate(layout) ==
    /\ img_phs(layout) = <<>>
    /\ text_phs(layout) # <<>>
    /\ ~negative_space_over_70(layout)
    /\ content_lps_of(layout) # <<>>

continuation_score(layout) ==
    sum_chars(content_lps_of(layout)) - negative_space_penalty(layout)

(***************************************************************************)
(* AIService._pick_best_text_continuation_layout: the position in layouts  *)
(* of the first candidate with the highest score, when that score exceeds  *)
(* the initial best_score of -1; 0 stands for None.                        *)
(***************************************************************************)
_pick_best_text_continuation_layout(layouts) ==
    LET cand == {i \in 1..Len(layouts) :
                    /\ continuation_candidate(layouts[i])
                    /\ continuation_score(layouts[i]) > -1}
    IN  IF cand = {} THEN 0
        ELSE CHOOSE i \in cand :
                 \A j \in cand :
                     \/ continuation_score(layouts[j])
                            < continuation_score(layouts[i])
                     \/ (continuation_score(layouts[j])
                            = continuation_score(layouts[i]) /\ i <= j)

(***************************************************************************)
(* short_title of _enforce_zero_overflow_by_splitting                      *)
(***************************************************************************)
ShortTitleMax == 60
ShortTitleWords == 8

short_title(s) ==
    LET t == join(words(strip(s)), <<" ">>)
        ws == words(t)
        head == join(SubSeq(ws, 1, Min(ShortTitleWords, Len(ws))), <<" ">>)
    IN  IF Len(t) <= ShortTitleMax THEN t
        ELSE rstrip(SubSeq(head, 1, Min(ShortTitleMax, Len(head))))

(***************************************************************************)
(* One pass of the for loop of _enforce_zero_overflow_by_splitting over a  *)
(* slide whose layout is known and has text placeholders: the short-title  *)
(* rule and the line fit of the first title box, then the line fit of the  *)
(* content boxes; what does not fit is collected in carry.                 *)
(***************************************************************************)
\* slide_text_ph: the dict {idx: placeholder} keeps the last text
\* placeholder of an idx; 0 when the slide has none
slide_text_pos(slide, idx) ==
    LET hits == {i \in 1..Len(slide.placeholders) :
                    /\ slide.placeholders[i].type = "text"
                    /\ slide.placeholders[i].idx = idx}
    IN  IF hits = {} THEN 0 ELSE CHOOSE i \in hits : \A j \in hits : j <= i

\* [content, carry] after the line fit r of a box whose carry was carry
with_rem(content, carry, r) ==
    [content |-> r.fit,
     carry |-> IF r.rem # <<>> THEN Append(carry, r.rem) ELSE carry]

\* lines 1532-1539: the line fit of the title box; an exception is ignored
title_fit(content, carry, props) ==
    IF _metrics_raises(props) THEN [content |-> content, carry |-> carry]
    ELSE with_rem(content, carry, _split_text_to_fit_box(content, props))

\* lines 1524-1530: the short headline st replaces the stripped content
\* original when it differs; what follows the first len(st) characters of
\* original is carried over
title_shortened(content, original, st, props) ==
    title_fit(IF original # <<>> /\ st # original THEN st ELSE content,
              IF /\ original # <<>> /\ st # original
                 /\ strip(SubSeq(original, Len(st) + 1, Len(original))) # <<>>
              THEN <<strip(SubSeq(original, Len(st) + 1, Len(original)))>>
              ELSE <<>>,
              props)

\* title enforcement of one slide placeholder: [content, carry]
title_enforced(content, props) ==
    title_shortened(content, strip(content), short_title(strip(content)),
                    props)

\* lines 1542-1556, content enforcement of one slide placeholder
content_enforced(content, props) ==
    IF strip(content) = <<>> \/ _metrics_raises(props)
    THEN [content |-> content, carry |-> <<>>]
    ELSE with_rem(content, <<>>,
                  _split_text_to_fit_box(strip(content), props))

\* title_lp: the first title box of the layout, as a sequence of 0 or 1
first_title(layout) ==
    IF title_lps_of(layout) = <<>> THEN <<>>
    ELSE <<title_lps_of(layout)[1]>>

\* the layout placeholder that governs slide placeholder i, if any:
\* the first title box or a content box whose idx maps to position i
governing_lps(slide, layout, i) ==
    SelectSeq(first_title(layout) \o content_lps_of(layout),
              LAMBDA lp : slide_text_pos(slide, lp.idx) = i)

enforce_governed(ph, g) ==
    IF g = <<>> THEN [content |-> ph.content, carry |-> <<>>]
    ELSE IF is_title_box(g[1])
    THEN title_enforced(ph.content, g[1].properties)
    ELSE content_enforced(ph.content, g[1].properties)

enforced_ph(slide, layout, i) ==
    enforce_governed(slide.placeholders[i], governing_lps(slide, layout, i))

RECURSIVE carry_of(_, _, _)
carry_of(slide, layout, lps) ==
    IF lps = <<>> THEN <<>>
    ELSE (IF slide_text_pos(slide, Head(lps).idx) = 0 THEN <<>>
          ELSE enforced_ph(slide, layout,
                           slide_text_pos(slide, Head(lps).idx)).carry)
         \o carry_of(slide, layout, Tail(lps))

\* lines 1562-1567
continuation_title(base_title) ==
    short_title(IF base_title # <<>>
                THEN strip(base_title \o <<" ", "(", "c", "o", "n", "t", ".",
                                           ")">>)
                ELSE <<"C", "o", "n", "t", "i", "n", "u", "e", "d">>)

enforce_result(slide, new_phs, carry, t_pos) ==
    [slide |-> [slide EXCEPT !.placeholders = new_phs],
     remaining |-> strip(join(SelectSeq(carry, LAMBDA c : strip(c) # <<>>),
                              <<"\n">>)),
     cont_title |-> continuation_title(
                        IF t_pos = 0 THEN <<>>
                        ELSE strip(new_phs[t_pos].content))]

enforce_slide(slide, layout) ==
    enforce_result(
        slide,
        [i \in 1..Len(slide.placeholders) |->
            IF slide.placeholders[i].type = "text"
            THEN [slide.placeholders[i] EXCEPT
                     !.content = enforced_ph(slide, layout, i).content]
            ELSE slide.placeholders[i]],
        carry_of(slide, layout, first_title(layout) \o content_lps_of(layout)),
        IF first_title(layout) = <<>> THEN 0
        ELSE slide_text_pos(slide, first_title(layout)[1].idx))

(***************************************************************************)
(* AIService._structure_as_bullets and its helpers _split_into_points,     *)
(* _split_long_line and _split_by_commas.                                  *)
(***************************************************************************)
\* the positions at which sub occurs in s
occurrences(s, sub) ==
    {i \in 1..(Len(s) - Len(sub) + 1) : SubSeq(s, i, i + Len(sub) - 1) = sub}

\* the characters of s at the positions keep, in order
pick(s, keep) ==
    [k \in 1..Cardinality(keep) |->
        s[CHOOSE i \in keep : Cardinality({j \in keep : j <= i}) = k]]

\* text.replace(p, '') for a marker p that cannot overlap itself ("- ",
\* "* "): every occurrence is removed
remove_all(s, p) ==
    pick(s, {i \in 1..Len(s) :
                \A o \in occurrences(s, p) : i < o \/ i >= o + Len(p)})

UpperCase == <<"A", "B", "C", "D", "E", "F", "G", "H", "I", "J", "K", "L", "M",
               "N", "O", "P", "Q", "R", "S", "T", "U", "V", "W", "X", "Y", "Z">>
LowerCase == <<"a", "b", "c", "d", "e", "f", "g", "h", "i", "j", "k", "l", "m",
               "n", "o", "p", "q", "r", "s", "t", "u", "v", "w", "x", "y", "z">>

\* str.lower()
lower(s) ==
    [i \in 1..Len(s) |->
        IF \E k \in 1..26 : UpperCase[k] = s[i]
        THEN LowerCase[CHOOSE k \in 1..26 : UpperCase[k] = s[i]]
        ELSE s[i]]

\* the parts of a list of strings that are not blank, stripped
RECURSIVE stripped_parts(_)
stripped_parts(parts) ==
    IF parts = <<>> THEN <<>>
    ELSE (IF strip(Head(parts)) = <<>> THEN <<>> ELSE <<strip(Head(parts))>>)
         \o stripped_parts(Tail(parts))

MaxPointWords == 10

\* the loop of _split_by_commas over the stripped parts
RECURSIVE commas_loop(_, _, _)
commas_loop(parts, current, points) ==
    IF parts = <<>>
    THEN IF current # <<>> THEN Append(points, current) ELSE points
    ELSE IF /\ Len(words(current)) > 0
            /\ Len(words(current)) + Len(words(Head(parts))) <= MaxPointWords
    THEN commas_loop(Tail(parts), current \o <<",", " ">> \o Head(parts),
                     points)
    ELSE IF Len(words(Head(parts))) <= MaxPointWords
    THEN commas_loop(Tail(parts), Head(parts),
                     IF current # <<>> THEN Append(points, current)
                     ELSE points)
    ELSE commas_loop(Tail(parts), <<>>,
                     Append(IF current # <<>> THEN Append(points, current)
                            ELSE points, Head(parts)))

points_or_text(points, text) == IF points # <<>> THEN points ELSE <<text>>

_split_by_commas(text) ==
    points_or_text(commas_loop(stripped_parts(split(text, ",")), <<>>, <<>>),
                   text)

\* the semicolon branch of _split_long_line over the stripped parts
RECURSIVE semicolon_points(_)
semicolon_points(parts) ==
    IF parts = <<>> THEN <<>>
    ELSE (IF Len(words(Head(parts))) <= MaxPointWords THEN <<Head(parts)>>
          ELSE _split_by_commas(Head(parts)))
         \o semicolon_points(Tail(parts))

Conjunctions == <<<<" ", "a", "n", "d", " ">>, <<" ", "o", "r", " ">>,
                  <<" ", "b", "u", "t", " ">>,
                  <<" ", "w", "h", "i", "l", "e", " ">>,
                  <<" ", "w", "i", "t", "h", " ">>>>

\* the conjunctions found in line.lower() at which line.split(conj, 1)
\* gives two parts, as positions in Conjunctions
usable_conjunctions(line) ==
    {k \in 1..Len(Conjunctions) :
        /\ occurrences(lower(line), Conjunctions[k]) # {}
        /\ occurrences(line, Conjunctions[k]) # {}}

\* the fall-back of _split_long_line: two halves at the middle word
halves(ws) ==
    (IF Len(ws) \div 2 > 0
     THEN <<join(SubSeq(ws, 1, Len(ws) \div 2), <<" ">>)>> ELSE <<>>)
    \o (IF ws # <<>>
        THEN <<join(SubSeq(ws, Len(ws) \div 2 + 1, Len(ws)), <<" ">>)>>
        ELSE <<>>)

RECURSIVE _split_long_line(_)
\* line.split(conj, 1) at position at, the rest split again when too long
conjunction_points(line, conj, at) ==
    (IF strip(SubSeq(line, 1, at - 1)) # <<>>
     THEN <<strip(SubSeq(line, 1, at - 1))>> ELSE <<>>)
    \o (IF strip(SubSeq(line, at + Len(conj), Len(line))) = <<>> THEN <<>>
        ELSE IF Len(words(SubSeq(line, at + Len(conj), Len(line))))
                    > MaxPointWords
        THEN _split_long_line(strip(SubSeq(line, at + Len(conj), Len(line))))
        ELSE <<strip(SubSeq(line, at + Len(conj), Len(line)))>>)

first_conjunction(line, ks) ==
    Conjunctions[CHOOSE k \in ks : \A j \in ks : k <= j]

first_occurrence(line, conj) ==
    CHOOSE i \in occurrences(line, conj) :
        \A j \in occurrences(line, conj) : i <= j

_split_long_line(line) ==
    IF occurrences(line, <<";">>) # {}
    THEN semicolon_points(stripped_parts(split(line, ";")))
    ELSE IF occurrences(line, <<",">>) # {} THEN _split_by_commas(line)
    ELSE IF usable_conjunctions(line) # {}
    THEN conjunction_points(
             line, first_conjunction(line, usable_conjunctions(line)),
             first_occurrence(
                 line, first_conjunction(line, usable_conjunctions(line))))
    ELSE halves(words(line))

RECURSIVE points_of_lines(_)
points_of_lines(lines) ==
    IF lines = <<>> THEN <<>>
    ELSE (IF Len(words(Head(lines))) <= MaxPointWords THEN <<Head(lines)>>
          ELSE _split_long_line(Head(lines)))
         \o points_of_lines(Tail(lines))

_split_into_points(text) ==
    IF text = <<>> THEN <<>>
    ELSE points_of_lines(stripped_parts(
             split(remove_all(remove_all(text, <<"-", " ">>), <<"*", " ">>),
                   "\n")))

_structure_as_bullets(text) ==
    IF strip(text) = <<>> THEN text
    ELSE join(_split_into_points(text), <<"\n">>)

(***************************************************************************)
(* One iteration of the while loop of _enforce_zero_overflow_by_splitting  *)
(* (lines 1574-1615).  AIService calls self._get_placeholder_font_size but *)
(* defines no such method; the operator below is what the binder's         *)
(* description gives it to do: the font size of the template placeholder.  *)
(***************************************************************************)
_get_placeholder_font_size(layout_ph) == layout_ph.properties.font_size

\* lines 1586-1601: the title placeholder with the continuation title, then
\* the content placeholders, empty
cont_placeholders(layout, title) ==
    [i \in 1..Len(first_title(layout)) |->
        [idx |-> first_title(layout)[i].idx, type |-> "text",
         content |-> title,
         font_size |-> _get_placeholder_font_size(first_title(layout)[i])]]
    \o [i \in 1..Len(content_lps_of(layout)) |->
        [idx |-> content_lps_of(layout)[i].idx, type |-> "text",
         content |-> <<>>,
         font_size |-> _get_placeholder_font_size(content_lps_of(layout)[i])]]

\* lines 1609-1612: the first text placeholder with this idx gets the content
set_content(phs, idx, content) ==
    LET hits == {i \in 1..Len(phs) : phs[i].type = "text" /\ phs[i].idx = idx}
    IN  IF hits = {} THEN phs
        ELSE [phs EXCEPT ![CHOOSE i \in hits : \A j \in hits : i <= j]
                             .content = content]

\* lines 1603-1613: the content boxes take what fits of the remaining
\* text, in turn; raised when a box has no font metadata, for which
\* _split_text_to_fit_box raises ValueError
RECURSIVE cont_fill(_, _, _)
cont_fill_step(lps, phs, idx, r) ==
    cont_fill(lps, set_content(phs, idx, _structure_as_bullets(r.fit)),
              strip(r.rem))

cont_fill(lps, phs, rem) ==
    IF lps = <<>> \/ rem = <<>>
    THEN [placeholders |-> phs, remaining |-> rem, raised |-> FALSE]
    ELSE IF _metrics_raises(Head(lps).properties)
    THEN [placeholders |-> phs, remaining |-> rem, raised |-> TRUE]
    ELSE cont_fill_step(Tail(lps), phs, Head(lps).idx,
                        _split_text_to_fit_box(rem, Head(lps).properties))

(***************************************************************************)
(* Sample templates.  Boxes are given by width, height, font size and line *)
(* spacing (margins absent, so the defaults apply).                        *)
(***************************************************************************)
Box(w, h, font, spacing) ==
    [width |-> w, height |-> h, font_size |-> font, line_spacing |-> spacing,
     margin_left |-> 0, margin_right |-> 0, margin_top |-> 0,
     margin_bottom |-> 0]

TitleProps == Box(164, 22, 40, 0)     \* 12 chars per line, 1 line
SubtitleProps == Box(164, 16, 36, 0)  \* 13 chars per line, 1 line
BodyProps == Box(64, 19, 18, 0)       \* 10 chars per line, 2 lines
NarrowProps == Box(34, 8, 18, 0)      \* 5 chars per line, 1 line
NoFontProps == Box(64, 19, 0, 0)      \* font metadata absent
ImageProps == Box(80, 80, 0, 0)

Ph(idx, type, name, props) ==
    [idx |-> idx, type |-> type, name |-> name, properties |-> props]

Deco == [type |-> "AUTO_SHAPE", is_design_image |-> FALSE,
         width |-> 200, height |-> 150]

LTitleBody ==
    [name |-> "TitleBody",
     placeholders |-> <<Ph(0, "text",
                           <<"T", "i", "t", "l", "e", " ", "1">>,
                           TitleProps),
                        Ph(1, "text",
                           <<"C", "o", "n", "t", "e", "n", "t", " ", "2">>,
                           BodyProps)>>,
     shapes |-> <<Deco>>]

LPicture ==
    [name |-> "Picture",
     placeholders |-> <<Ph(0, "text",
                           <<"T", "i", "t", "l", "e", " ", "1">>,
                           TitleProps),
                        Ph(1, "text",
                           <<"C", "o", "n", "t", "e", "n", "t", " ", "2">>,
                           BodyProps),
                        Ph(2, "image",
                           <<"P", "i", "c", "t", "u", "r", "e", " ", "3">>,
                           ImageProps)>>,
     shapes |-> <<>>]

LTwoTitles ==
    [name |-> "TwoTitles",
     placeholders |-> <<Ph(0, "text",
                           <<"T", "i", "t", "l", "e", " ", "1">>,
                           TitleProps),
                        Ph(1, "text",
                           <<"S", "u", "b", "t", "i", "t", "l", "e", " ", "2">>,
                           SubtitleProps)>>,
     shapes |-> <<Deco>>]

LSparse ==
    [name |-> "Sparse",
     placeholders |-> <<Ph(0, "text",
                           <<"T", "i", "t", "l", "e", " ", "1">>,
                           TitleProps),
                        Ph(1, "text",
                           <<"C", "o", "n", "t", "e", "n", "t", " ", "2">>,
                           NoFontProps)>>,
     shapes |-> <<>>]

LOneLine ==
    [name |-> "OneLine",
     placeholders |-> <<Ph(0, "text",
                           <<"C", "o", "n", "t", "e", "n", "t", " ", "1">>,
                           NarrowProps),
                        Ph(1, "text",
                           <<"C", "o", "n", "t", "e", "n", "t", " ", "2">>,
                           BodyProps)>>,
     shapes |-> <<Deco>>]

LNote ==
    [name |-> "Note",
     placeholders |-> <<Ph(0, "text",
                           <<"T", "i", "t", "l", "e", " ", "1">>,
                           TitleProps),
                        Ph(1, "text",
                           <<"C", "o", "n", "t", "e", "n", "t", " ", "2">>,
                           NarrowProps)>>,
     shapes |-> <<Deco>>]

LNoFont ==
    [name |-> "NoFont",
     placeholders |-> <<Ph(0, "text",
                           <<"T", "i", "t", "l", "e", " ", "1">>,
                           TitleProps),
                        Ph(1, "text",
                           <<"C", "o", "n", "t", "e", "n", "t", " ", "2">>,
                           NoFontProps)>>,
     shapes |-> <<Deco>>]

\* a title and a body of 24 pt that cover two thirds of the slide
LRoomy ==
    [name |-> "Roomy",
     placeholders |-> <<Ph(0, "text",
                           <<"T", "i", "t", "l", "e", " ", "1">>,
                           TitleProps),
                        Ph(1, "text",
                           <<"C", "o", "n", "t", "e", "n", "t", " ", "2">>,
                           Box(170, 100, 24, 0))>>,
     shapes |-> <<>>]

\* a title and a body of 12 pt that cover half of the slide
LDense ==
    [name |-> "Dense",
     placeholders |-> <<Ph(0, "text",
                           <<"T", "i", "t", "l", "e", " ", "1">>,
                           TitleProps),
                        Ph(1, "text",
                           <<"C", "o", "n", "t", "e", "n", "t", " ", "2">>,
                           Box(130, 90, 12, 0))>>,
     shapes |-> <<>>]

\* a title and a body of 24 pt that cover a third of the slide
LThird ==
    [name |-> "Third",
     placeholders |-> <<Ph(0, "text",
                           <<"T", "i", "t", "l", "e", " ", "1">>,
                           TitleProps),
                        Ph(1, "text",
                           <<"C", "o", "n", "t", "e", "n", "t", " ", "2">>,
                           Box(80, 80, 24, 0))>>,
     shapes |-> <<>>]

\* a title box of 28 pt with three lines of 21 characters, and a body
LBanner ==
    [name |-> "Banner",
     placeholders |-> <<Ph(0, "text",
                           <<"T", "i", "t", "l", "e", " ", "1">>,
                           Box(200, 42, 28, 0)),
                        Ph(1, "text",
                           <<"C", "o", "n", "t", "e", "n", "t", " ", "2">>,
                           BodyProps)>>,
     shapes |-> <<Deco>>]

LayoutSets ==
    {<<LBanner>>, <<LPicture, LTitleBody>>, <<LTwoTitles, LOneLine>>,
     <<LPicture, LSparse>>, <<LNote>>, <<LNoFont>>, <<LRoomy, LDense>>,
     <<LThird>>}

Str(n, c) == [i \in 1..n |-> c]

TitleTexts ==
    {<<"a", "b">>,
     Str(9, "a") \o <<" ">> \o Str(9, "b"),
     join([i \in 1..11 |-> Str(5, "a")], <<" ">>),
     join([i \in 1..9 |-> Str(5, "c")], <<" ">>)}

BodyTexts ==
    {<<>>,
     <<"a", "b", " ", "c", "d">>,
     <<"-", " ">> \o Str(4, "a") \o <<" ">> \o Str(6, "b") \o <<"\n", "-", " ">>
        \o Str(3, "c") \o <<"\n">> \o Str(2, "d"),
     join([i \in 1..14 |-> <<"a">>], <<"\n">>),
     join([i \in 1..11 |-> Str(5, "b")], <<" ">>)}

\* the planner's slides for a template: any layout name of the template
\* or an unknown one, a text for placeholder 0 and a text for placeholder 1
PlannerSlides(ls) ==
    {[layout_name |-> n, slide_number |-> 0,
      placeholders |-> <<[idx |-> 0, type |-> "text", content |-> t,
                          font_size |-> 0],
                         [idx |-> 1, type |-> "text", content |-> b,
                          font_size |-> 0]>>] :
        n \in {ls[i].name : i \in 1..Len(ls)} \cup {"Unknown"},
        t \in TitleTexts, b \in BodyTexts}

(***************************************************************************)
(* PPTXService: overflow detection by geometry.  A text box of the output  *)
(* deck is [idx, type, text, font_size, image, properties]: font_size is   *)
(* the size set on its runs (0: none set), properties the geometry it      *)
(* inherits from the template.  Assigning text_frame.text makes new runs,  *)
(* which have no size of their own.                                        *)
(***************************************************************************)
DefaultFontPt == 18

\* the inner loop of _count_wrapped_lines over the words of a paragraph
RECURSIVE para_lines(_, _, _, _)
para_lines(ws, chars_per_line, current_line_length, line_count) ==
    IF ws = <<>> THEN line_count
    ELSE IF current_line_length + Len(Head(ws)) + 1 > chars_per_line
    THEN para_lines(Tail(ws), chars_per_line, Len(Head(ws)) + 1,
                    line_count + 1)
    ELSE para_lines(Tail(ws), chars_per_line,
                    current_line_length + Len(Head(ws)) + 1, line_count)

RECURSIVE paragraphs_lines(_, _)
paragraphs_lines(paragraphs, chars_per_line) ==
    IF paragraphs = <<>> THEN 0
    ELSE (IF words(Head(paragraphs)) = <<>> THEN 1
          ELSE para_lines(words(Head(paragraphs)), chars_per_line, 0, 1))
         + paragraphs_lines(Tail(paragraphs), chars_per_line)

\* char_width is 0.6 of the font size: usable_width / char_width is
\* units * 45720 / (points * 12700 * 0.6) = units * 6 / points
_count_wrapped_lines(text, usable_width, font_size) ==
    IF strip(text) = <<>> THEN 0
    ELSE paragraphs_lines(split(text, "\n"),
                          Max(1, (usable_width * 6) \div font_size))

\* the size of the first run of the first paragraph, or 18 pt
first_run_size(text, font_size) ==
    IF font_size # 0 /\ text # <<>> /\ Head(text) # "\n" THEN font_size
    ELSE DefaultFontPt

\* height_needed = lines * font * 1.5 * 1.1 against the usable height, in
\* EMU: lines * points * 12700 * 1.65 > units * 45720
_detect_text_overflow_fallback(text, font_size, props) ==
    _count_wrapped_lines(
        text,
        props.width
          - (IF props.margin_left # 0 THEN props.margin_left
             ELSE DefaultMarginLR)
          - (IF props.margin_right # 0 THEN props.margin_right
             ELSE DefaultMarginLR),
        first_run_size(text, font_size))
      * first_run_size(text, font_size) * 20955
    > (props.height
         - (IF props.margin_top # 0 THEN props.margin_top
            ELSE DefaultMarginTB)
         - (IF props.margin_bottom # 0 THEN props.margin_bottom
            ELSE DefaultMarginTB)) * 45720

\* _detect_text_overflow asks python-pptx's fit_text, which needs the font
\* file of the text; where that raises, and this is what is modelled, the
\* method returns what _detect_text_overflow_fallback computes
_detect_text_overflow(text, font_size, props) ==
    _detect_text_overflow_fallback(text, font_size, props)

\* text.rfind(' ') as a 0-based index, -1 when there is none
rfind_space(text) ==
    IF \A i \in 1..Len(text) : text[i] # " " THEN -1
    ELSE (CHOOSE i \in 1..Len(text) :
              text[i] = " " /\ \A j \in (i + 1)..Len(text) : text[j] # " ") - 1

_truncate_at_word_boundary(text, max_chars) ==
    IF Len(text) <= max_chars THEN text
    ELSE IF rfind_space(SubSeq(text, 1, max_chars)) * 10 > max_chars * 8
    THEN rstrip(SubSeq(text, 1, rfind_space(SubSeq(text, 1, max_chars))))
    ELSE rstrip(SubSeq(text, 1, max_chars))

MaxFitIterations == 20
CloseEnough == 5
FallbackChars == 30
Ellipsis == <<".", ".", ".">>

\* the binary search of _iteratively_fit_text: [best_fit, text], text being
\* what text_frame.text was last set to
RECURSIVE fit_search(_, _, _, _, _, _, _)
fit_try(props, original_text, min_chars, max_chars, best_fit, test, it) ==
    IF _detect_text_overflow(test, 0, props)
    THEN fit_search(props, original_text, min_chars,
                    (min_chars + max_chars) \div 2, best_fit, test, it + 1)
    ELSE fit_search(props, original_text, (min_chars + max_chars) \div 2,
                    max_chars, test, test, it + 1)

fit_search(props, original_text, min_chars, max_chars, best_fit, text, it) ==
    IF \/ it >= MaxFitIterations
       \/ max_chars - min_chars <= CloseEnough
       \/ (min_chars + max_chars) \div 2 <= 0
    THEN [best_fit |-> best_fit, text |-> text]
    ELSE fit_try(props, original_text, min_chars, max_chars, best_fit,
                 _truncate_at_word_boundary(original_text,
                                            (min_chars + max_chars) \div 2),
                 it)

\* lines 693-704: the best fit with an ellipsis, or the first 30
\* characters with an ellipsis when nothing fitted
fitted_of(original_text, found) ==
    [fitted |->
        IF found.best_fit # <<>>
        THEN IF Len(found.best_fit) < Len(original_text)
             THEN rstrip(found.best_fit) \o Ellipsis ELSE found.best_fit
        ELSE _truncate_at_word_boundary(original_text, FallbackChars)
             \o Ellipsis,
     text |-> found.text]

\* [fitted, text]: what _iteratively_fit_text returns and what it leaves
\* in text_frame.text
_iteratively_fit_text(props, original_text) ==
    IF strip(original_text) = <<>>
    THEN [fitted |-> original_text, text |-> original_text]
    ELSE IF ~_detect_text_overflow(original_text, 0, props)
    THEN [fitted |-> original_text, text |-> original_text]
    ELSE fitted_of(original_text,
                   fit_search(props, original_text, 0, Len(original_text),
                              <<>>, original_text, 0))

\* a shape with a text frame: the placeholders; a picture added to the
\* slide by add_picture has none
has_text_frame(shape) == shape.type # "picture"

OverflowPreview == 100

\* line 433: the report holds the first 100 characters of a longer lost
\* text, followed by '...'
reported_overflow(overflow_content) ==
    IF Len(overflow_content) > OverflowPreview
    THEN SubSeq(overflow_content, 1, OverflowPreview) \o Ellipsis
    ELSE overflow_content

\* lines 411-436 for one shape that overflows: the shape afterwards and
\* the overflow report
shortened(shape, f) ==
    [shape |-> [shape EXCEPT
                   !.text = IF f.fitted # shape.text THEN f.fitted
                            ELSE f.text,
                   !.font_size = 0],
     reports |->
        IF f.fitted # shape.text
        THEN <<[original_length |-> Len(shape.text),
                fitted_length |-> Len(f.fitted),
                overflow_content |->
                    reported_overflow(SubSeq(shape.text, Len(f.fitted) + 1,
                                             Len(shape.text)))]>>
        ELSE <<>>]

\* the body of the loop of _enforce_text_fit_by_measurement for one shape
enforce_shape(shape) ==
    IF ~has_text_frame(shape) \/ strip(shape.text) = <<>>
    THEN [shape |-> shape, reports |-> <<>>]
    ELSE IF ~_detect_text_overflow(shape.text, shape.font_size,
                                   shape.properties)
    THEN [shape |-> shape, reports |-> <<>>]
    ELSE shortened(shape, _iteratively_fit_text(shape.properties, shape.text))

\* lines 428-430: a report names its slide and its shape (here by the
\* position of the shape on the slide)
report_at(r, slide_num, j) ==
    [slide_number |-> slide_num, shape |-> j,
     original_length |-> r.original_length,
     fitted_length |-> r.fitted_length,
     overflow_content |-> r.overflow_content]

\* the reports for the shapes of a slide from shape j on
RECURSIVE shape_reports(_, _, _)
shape_reports(shapes, slide_num, j) ==
    IF j > Len(shapes) THEN <<>>
    ELSE [i \in 1..Len(enforce_shape(shapes[j]).reports) |->
             report_at(enforce_shape(shapes[j]).reports[i], slide_num, j)]
         \o shape_reports(shapes, slide_num, j + 1)

\* the reports for the slides of a deck from slide slide_num on
RECURSIVE slide_reports(_, _)
slide_reports(d, slide_num) ==
    IF slide_num > Len(d) THEN <<>>
    ELSE shape_reports(d[slide_num].shapes, slide_num, 1)
         \o slide_reports(d, slide_num + 1)

\* _enforce_text_fit_by_measurement: the deck afterwards and the reports
_enforce_text_fit_by_measurement(d) ==
    [deck |-> [n \in 1..Len(d) |->
                  [d[n] EXCEPT !.shapes =
                      [j \in 1..Len(d[n].shapes) |->
                          enforce_shape(d[n].shapes[j]).shape]]],
     reports |-> slide_reports(d, 1)]

\* the boxes _validate_no_overflow counts, as <<slide, shape>>
overflowing_boxes(d) ==
    {b \in UNION {{<<n, j>> : j \in 1..Len(d[n].shapes)} : n \in 1..Len(d)} :
        /\ has_text_frame(d[b[1]].shapes[b[2]])
        /\ strip(d[b[1]].shapes[b[2]].text) # <<>>
        /\ _detect_text_overflow(d[b[1]].shapes[b[2]].text,
                                 d[b[1]].shapes[b[2]].font_size,
                                 d[b[1]].shapes[b[2]].properties)}

\* a validation that looks at the first box of each slide only
_validate_first_boxes(d) ==
    Cardinality({b \in overflowing_boxes(d) : b[2] = 1})
_validate_no_overflow(d) == Cardinality(overflowing_boxes(d))

(***************************************************************************)
(* utils/slide_cloner.py.  A slide specification is [is_dict, layout_name, *)
(* placeholders]; an assignment is [idx, type, content, font_size,         *)
(* image_index, null] with idx -1 for a missing 'idx' key, image_index -1  *)
(* for a missing one and null for a content that is None.  A slide of the  *)
(* output deck is [spec, layout_name, shapes], spec being the ordinal of   *)
(* the specification it was made for.                                     *)
(***************************************************************************)
\* line 23: add_slide gives the new slide the placeholders of the layout
\* of the source slide, empty
new_slide(layout, ordinal) ==
    [spec |-> ordinal, layout_name |-> layout.name,
     shapes |-> [j \in 1..Len(layout.placeholders) |->
                    [idx |-> j - 1, type |-> layout.placeholders[j].type,
                     text |-> <<>>, font_size |-> 0, image |-> "",
                     properties |-> layout.placeholders[j].properties]]]

\* line 46: content_map keeps the last assignment of an idx; 0 when the
\* idx has none
content_pos(items, counter) ==
    LET hits == {i \in 1..Len(items) : items[i].idx = counter}
    IN  IF hits = {} THEN 0 ELSE CHOOSE i \in hits : \A j \in hits : j <= i

\* list(uploaded_images.keys()): the file names in the order of their
\* first insertion
keys(images) == [i \in 1..Len(images) |-> images[i].filename]

\* lines 126-135: the file names an image_index counts through
image_filenames(images, order) ==
    IF order # <<>> THEN order ELSE keys(images)

\* lines 135-137: the image data of an assignment, "" when the index is
\* out of range or the name is not among the uploaded images (KeyError,
\* caught)
image_of(item, images, order) ==
    IF /\ item.image_index >= 0
       /\ item.image_index < Len(image_filenames(images, order))
       /\ \E i \in 1..Len(images) :
              images[i].filename
                  = image_filenames(images, order)[item.image_index + 1]
    THEN LET filename == image_filenames(images, order)[item.image_index + 1]
         IN  images[CHOOSE i \in 1..Len(images) :
                        images[i].filename = filename].data
    ELSE ""

\* _fill_placeholder_in_cloned_slide: the placeholder afterwards
filled(shape, item, images, order) ==
    IF item.type = "text"
    THEN [shape EXCEPT !.text = item.content, !.font_size = item.font_size]
    ELSE IF item.type = "image" /\ shape.type = "image"
    THEN [shape EXCEPT !.image = image_of(item, images, order)]
    ELSE shape

\* lines 157-164: a placeholder without insert_picture keeps its place and
\* the picture is added to the slide as a shape of its own
added_picture(shape, item, images, order) ==
    IF /\ item.type = "image" /\ shape.type # "image"
       /\ image_of(item, images, order) # ""
    THEN <<[idx |-> -1, type |-> "picture", text |-> <<>>, font_size |-> 0,
            image |-> image_of(item, images, order),
            properties |-> shape.properties]>>
    ELSE <<>>

RECURSIVE added_pictures(_, _, _, _)
added_pictures(shapes, items, images, order) ==
    IF shapes = <<>> THEN <<>>
    ELSE (IF content_pos(items, Head(shapes).idx) = 0 THEN <<>>
          ELSE added_picture(Head(shapes),
                             items[content_pos(items, Head(shapes).idx)],
                             images, order))
         \o added_pictures(Tail(shapes), items, images, order)

\* _copy_all_shapes: a placeholder whose ordinal has an assignment is
\* filled, the others are left as they are
_copy_all_shapes(slide, items, images, order) ==
    [slide EXCEPT !.shapes =
        [j \in 1..Len(slide.shapes) |->
            IF content_pos(items, slide.shapes[j].idx) = 0
            THEN slide.shapes[j]
            ELSE filled(slide.shapes[j],
                        items[content_pos(items, slide.shapes[j].idx)],
                        images, order)]
        \o added_pictures(slide.shapes, items, images, order)]

\* clone_slide_with_content: [raised, slides], slides being what the call
\* has added to the target deck.  The source slide is looked up first
\* (IndexError), the slide is added, and then _copy_all_shapes builds
\* content_map, where an assignment without 'idx' raises KeyError.
clone_slide_with_content(rules, source_slide_index, items, images, order, n) ==
    IF source_slide_index < 0 \/ source_slide_index >= Len(rules)
    THEN [raised |-> TRUE, slides |-> <<>>]
    ELSE IF \E i \in 1..Len(items) : items[i].idx = -1
    THEN [raised |-> TRUE,
          slides |-> <<new_slide(rules[source_slide_index + 1], n)>>]
    ELSE [raised |-> FALSE,
          slides |-> <<_copy_all_shapes(
                         new_slide(rules[source_slide_index + 1], n),
                         items, images, order)>>]

(***************************************************************************)
(* Sample sessions of PPTXService: the stored layouts of a template, each  *)
(* with the index of its slide in the template file, and the slide         *)
(* specifications a caller may pass to generate_deck.                      *)
(***************************************************************************)
At(layout, k) ==
    [name |-> layout.name, placeholders |-> layout.placeholders,
     shapes |-> layout.shapes, layout_index |-> k]

\* in the second the stored index of TitleBody is not a slide of the file
DeckTemplates ==
    {<<At(LTitleBody, 0), At(LPicture, 1)>>, <<At(LNote, 0), At(LTitleBody, 3)>>}

TextItem(idx, content, font) ==
    [idx |-> idx, type |-> "text", content |-> content, font_size |-> font,
     image_index |-> -1, null |-> FALSE]

ImageItem(idx, k) ==
    [idx |-> idx, type |-> "image", content |-> <<>>, font_size |-> 0,
     image_index |-> k, null |-> FALSE]

SlideSpec(name, items) ==
    [is_dict |-> TRUE, layout_name |-> name, placeholders |-> items]

LinesBody == join([i \in 1..14 |-> <<"a">>], <<"\n">>)
WordsBody == join([i \in 1..11 |-> Str(5, "a")], <<" ">>)

\* what a caller may pass for a template with the stored layouts rules
CallerSpecs(rules) ==
    {SlideSpec(rules[1].name,
               <<TextItem(0, <<"a", "b">>, 40), TextItem(1, b, 18)>>) :
         b \in {<<"a", "b", " ", "c", "d">>, LinesBody, WordsBody}}
    \cup {SlideSpec(rules[1].name, <<TextItem(0, <<"a", "b">>, 0)>>),
          SlideSpec(rules[1].name,
                    <<TextItem(0, <<"a", "b">>, 0), TextItem(1, <<"c">>, 0),
                      TextItem(5, <<"z">>, 0)>>),
          SlideSpec(rules[1].name,
                    <<TextItem(-1, <<"a", "b">>, 0), TextItem(1, <<"c">>, 0)>>),
          SlideSpec(rules[1].name,
                    <<TextItem(0, <<"a", "b">>, 0),
                      [TextItem(1, <<>>, 0) EXCEPT !.null = TRUE]>>),
          SlideSpec(rules[2].name,
                    <<TextItem(0, <<"a", "b">>, 0), TextItem(1, <<"c">>, 0),
                      ImageItem(2, 0)>>),
          SlideSpec("Unknown",
                    <<TextItem(0, <<"a", "b">>, 0), TextItem(1, <<"c">>, 0)>>),
          [is_dict |-> FALSE, layout_name |-> "", placeholders |-> <<>>]}

ImageSets == {<<>>, <<[filename |-> "a.png", data |-> "A"]>>}

\* a custom theme is given by the sizes of its title and body fonts, 0 for
\* a font it does not give; NoTheme is None or a theme without fonts
NoTheme == [title_size |-> 0, body_size |-> 0]
CustomThemes == {NoTheme, [title_size |-> 0, body_size |-> 24]}

MaxSlides == 1
MaxSpecs == 2
MaxShapes == 3
MaxWidthSteps == 5
MaxHeightSteps == 5
MaxImages == 2
MaxColors == 1

(***************************************************************************)
(* State of one call of AIService._enforce_zero_overflow_by_splitting.     *)
(***************************************************************************)
VARIABLES
    layouts,        \* the template's layouts (argument)
    slides,         \* the planner's slides (argument, changed in place)
    orig,           \* the slides as they were passed in
    continuation,   \* position of continuation_layout in layouts, 0 = None
    out,            \* the list being built
    at,             \* where in out each slide of slides is (the same object)
    ei,             \* position of the for loop in slides
    remaining,      \* carry-over text of the slide being processed
    cont_title,     \* title of its continuation slides
    safety_loops,   \* counter of the while loop
    inserted,       \* continuation slides counted so far
    epc,            \* "start", "slides", "cont", "done"
    eresult         \* "none", "returned", "AttributeError", "ValueError"

aiVars == <<layouts, slides, orig, continuation, out, at, ei, remaining,
            cont_title, safety_loops, inserted, epc, eresult>>

(***************************************************************************)
(* State of a PPTXService and of one call of its generate_deck.            *)
(***************************************************************************)
VARIABLES
    template_loaded,    \* template_path and stored_rules are set
    stored_rules,       \* the layouts stored with the template
    slide_specs,        \* the argument of generate_deck
    uploaded_images,    \* the stored images [filename, data], in dict order
    custom_theme,       \* the custom_theme argument of generate_deck
    source_prs,         \* the slides of the file at template_path
    image_order,        \* the order the caller gave the images in
    deck,               \* the slides of target_prs
    di,                 \* position of the for loop in slide_specs
    reports,            \* overflow_reports
    dpc,                \* "idle", "start", "specs", "done"
    dresult             \* "none", "bytes" or the error raised

deckVars == <<template_loaded, stored_rules, slide_specs, uploaded_images,
              custom_theme, source_prs, image_order, deck, di, reports, dpc,
              dresult>>

(***************************************************************************)
(* State of one call of extract_slide_as_layout.                           *)
(***************************************************************************)
VARIABLES
    xshapes,            \* slide.shapes of the template slide (argument)
    layout_def,         \* the layout being built: placeholders and shapes
    internal_counter,   \* the counter the placeholders take their idx from
    xi,                 \* position of the for loop in slide.shapes
    xpc                 \* "idle", "shapes", "done"

extractVars == <<xshapes, layout_def, internal_counter, xi, xpc>>

(***************************************************************************)
(* The last call of one of the capacity estimators of AIService.           *)
(***************************************************************************)
VARIABLES
    cprops,     \* the placeholder properties passed
    cwhich,     \* "none", "metrics" (_textbox_metrics_from_props) or
                \* "capacity" (_calculate_text_capacity)
    cresult     \* [chars_per_line, lines_available, raised]

capVars == <<cprops, cwhich, cresult>>

(***************************************************************************)
(* The calls made on a PPTXService between two calls of generate_deck.     *)
(***************************************************************************)
VARIABLES
    last_call,      \* the method called last, "none" before the first call
    call_raised,    \* whether it raised
    file_storage,   \* the template file passed last
    store_calls     \* the [filename, data] passed to store_image since the
                    \* last clear_images, in the order of the calls

sessionVars == <<last_call, call_raised, file_storage, store_calls>>

(***************************************************************************)
(* One call of _validate_and_fix_shape_positions.  Positions and sizes are *)
(* in EMU here, as the margins the function leaves are no whole units.     *)
(***************************************************************************)
VARIABLES
    presentation,   \* [slide_width, slide_height, slides]; a slide is the
                    \* sequence of the [left, top, width, height] of its
                    \* shapes
    ppc             \* "idle", "start" or "done"

posVars == <<presentation, ppc>>

(***************************************************************************)
(* One call of intelligent_chunk_with_layouts, from the first response of  *)
(* the planner on.  The enforcement it calls is the one of aiVars.         *)
(***************************************************************************)
VARIABLES
    n_images,       \* len(images)
    structure,      \* the 'structure' returned
    kpc             \* "idle", "request", "retry", "enforce", "returned" or
                    \* "raised"

chunkVars == <<n_images, structure, kpc>>

vars ==
    <<aiVars, deckVars, extractVars, capVars, sessionVars, posVars, chunkVars>>

\* no template file has been passed
NoFile == [slides |-> <<>>, major_font |-> "", minor_font |-> "", colors |-> 0]

\* no method of the service has been called
SessionIdle ==
    /\ last_call = "none"
    /\ call_raised = FALSE
    /\ file_storage = NoFile
    /\ store_calls = <<>>

\* what a step of generate_deck leaves alone
notDeckVars ==
    <<aiVars, extractVars, capVars, sessionVars, posVars, chunkVars>>

\* what a step of the overflow enforcement leaves alone
notAiVars ==
    <<deckVars, extractVars, capVars, sessionVars, posVars, chunkVars>>

\* what a step of the extraction leaves alone
notExtractVars ==
    <<aiVars, deckVars, capVars, sessionVars, posVars, chunkVars>>

\* what a call of an estimator leaves alone
notCapVars ==
    <<aiVars, deckVars, extractVars, sessionVars, posVars, chunkVars>>

\* what a step of intelligent_chunk_with_layouts outside the enforcement
\* leaves alone
notChunkVars == <<deckVars, extractVars, capVars, sessionVars, posVars>>

\* no call of intelligent_chunk_with_layouts is going on
ChunkIdle ==
    /\ n_images = 0
    /\ structure = <<>>
    /\ kpc = "idle"

\* what a call of _validate_and_fix_shape_positions leaves alone
notPosVars ==
    <<aiVars, deckVars, extractVars, capVars, sessionVars, chunkVars>>

\* no call of _validate_and_fix_shape_positions is going on
PosIdle ==
    /\ presentation = [slide_width |-> 0, slide_height |-> 0, slides |-> <<>>]
    /\ ppc = "idle"

\* no estimator has been called
CapIdle ==
    /\ cprops = [width |-> 0, height |-> 0, font_size |-> 0,
                 line_spacing |-> 0, margin_left |-> 0, margin_right |-> 0,
                 margin_top |-> 0, margin_bottom |-> 0]
    /\ cwhich = "none"
    /\ cresult = [chars_per_line |-> 0, lines_available |-> 0,
                  raised |-> FALSE]

\* no call of extract_slide_as_layout is going on
ExtractIdle ==
    /\ xshapes = <<>>
    /\ layout_def = [placeholders |-> <<>>, shapes |-> <<>>]
    /\ internal_counter = 0
    /\ xi = 1
    /\ xpc = "idle"

\* no call of generate_deck is going on
DeckIdle ==
    /\ template_loaded = FALSE
    /\ stored_rules = <<>>
    /\ slide_specs = <<>>
    /\ uploaded_images = <<>>
    /\ custom_theme = NoTheme
    /\ source_prs = <<>>
    /\ image_order = <<>>
    /\ deck = <<>>
    /\ di = 1
    /\ reports = <<>>
    /\ dpc = "idle"
    /\ dresult = "none"

\* no call of _enforce_zero_overflow_by_splitting is going on
EnforceIdle ==
    /\ layouts = <<>>
    /\ slides = <<>>
    /\ orig = <<>>
    /\ continuation = 0
    /\ out = <<>>
    /\ at = <<>>
    /\ ei = 1
    /\ remaining = <<>>
    /\ cont_title = <<>>
    /\ safety_loops = 0
    /\ inserted = 0
    /\ epc = "idle"
    /\ eresult = "none"

MaxContinuations == 12

layout_named(name) ==
    LET hits == {i \in 1..Len(layouts) : layouts[i].name = name}
    IN  IF hits = {} THEN 0 ELSE CHOOSE i \in hits : \A j \in hits : j <= i

InitEnforce ==
    /\ layouts \in LayoutSets
    /\ \E n \in 1..MaxSlides :
           slides \in [1..n -> PlannerSlides(layouts)]
    /\ orig = slides
    /\ continuation = 0
    /\ out = <<>>
    /\ at = <<>>
    /\ ei = 1
    /\ remaining = <<>>
    /\ cont_title = <<>>
    /\ safety_loops = 0
    /\ inserted = 0
    /\ epc = "start"
    /\ eresult = "none"
    /\ DeckIdle
    /\ ExtractIdle
    /\ CapIdle
    /\ SessionIdle
    /\ PosIdle
    /\ ChunkIdle

\* lines 1474-1477: without a continuation layout the slides are returned
\* as they are
EnforceBegin ==
    /\ epc = "start"
    /\ UNCHANGED notAiVars
    /\ continuation' = _pick_best_text_continuation_layout(layouts)
    /\ IF continuation' = 0
       THEN /\ out' = slides
            /\ at' = [i \in 1..Len(slides) |-> i]
            /\ epc' = "done"
            /\ eresult' = "returned"
       ELSE /\ epc' = "slides"
            /\ UNCHANGED <<out, at, eresult>>
    /\ UNCHANGED <<layouts, slides, orig, ei, remaining, cont_title,
                   safety_loops, inserted>>

\* lines 1500-1569: one slide of the for loop, up to the while loop
EnforceSlide ==
    /\ epc = "slides"
    /\ UNCHANGED notAiVars
    /\ ei <= Len(slides)
    /\ at' = Append(at, Len(out) + 1)
    /\ \E li \in {layout_named(slides[ei].layout_name)} :
           IF li = 0 \/ text_phs(layouts[IF li = 0 THEN 1 ELSE li]) = <<>>
           THEN /\ out' = Append(out, slides[ei])
                /\ ei' = ei + 1
                /\ UNCHANGED <<slides, remaining, cont_title, safety_loops,
                               epc>>
           ELSE \E r \in {enforce_slide(slides[ei], layouts[li])} :
                    /\ slides' = [slides EXCEPT ![ei] = r.slide]
                    /\ out' = Append(out, r.slide)
                    /\ remaining' = r.remaining
                    /\ IF r.remaining = <<>>
                       THEN /\ ei' = ei + 1
                            /\ UNCHANGED <<cont_title, safety_loops, epc>>
                       ELSE /\ cont_title' = r.cont_title
                            /\ safety_loops' = 0
                            /\ epc' = "cont"
                            /\ UNCHANGED ei
    /\ UNCHANGED <<layouts, orig, continuation, inserted, eresult>>

\* lines 1570-1601: an iteration of the while loop builds the continuation
\* slide's placeholders and asks self._get_placeholder_font_size for the
\* font size of the first of them; AIService defines no such method, so the
\* call raises AttributeError and the enforcement ends with it
ContinuationRaise ==
    /\ epc = "cont"
    /\ UNCHANGED notAiVars
    /\ remaining # <<>> /\ safety_loops < MaxContinuations
    /\ safety_loops' = safety_loops + 1
    /\ inserted' = inserted + 1
    /\ epc' = "done"
    /\ eresult' = "AttributeError"
    /\ UNCHANGED <<layouts, slides, orig, continuation, out, at, ei,
                   remaining, cont_title>>

\* lines 1617-1623: the slides are renumbered and returned
EnforceEnd ==
    /\ epc = "slides"
    /\ UNCHANGED notAiVars
    /\ ei > Len(slides)
    /\ out' = [i \in 1..Len(out) |-> [out[i] EXCEPT !.slide_number = i]]
    /\ slides' = [k \in 1..Len(slides) |->
                      [slides[k] EXCEPT !.slide_number = at[k]]]
    /\ epc' = "done"
    /\ eresult' = "returned"
    /\ UNCHANGED <<layouts, orig, continuation, at, ei, remaining,
                   cont_title, safety_loops, inserted>>

\* an iteration of the while loop with _get_placeholder_font_size in place
ContinuationIter ==
    /\ epc = "cont"
    /\ UNCHANGED notAiVars
    /\ remaining # <<>> /\ safety_loops < MaxContinuations
    /\ safety_loops' = safety_loops + 1
    /\ inserted' = inserted + 1
    /\ \E f \in {cont_fill(content_lps_of(layouts[continuation]),
                           cont_placeholders(layouts[continuation],
                                             cont_title),
                           remaining)} :
           IF f.raised
           THEN /\ epc' = "done"
                /\ eresult' = "ValueError"
                /\ UNCHANGED <<out, remaining>>
           ELSE /\ out' = Append(out,
                              [layout_name |-> layouts[continuation].name,
                               slide_number |-> 0,
                               placeholders |-> f.placeholders])
                /\ remaining' = f.remaining
                /\ UNCHANGED <<epc, eresult>>
    /\ UNCHANGED <<layouts, slides, orig, continuation, at, ei, cont_title>>

\* line 1570: the while loop ends when nothing remains or after
\* MaxContinuations iterations; the for loop goes on to the next slide
ContinuationExit ==
    /\ epc = "cont"
    /\ UNCHANGED notAiVars
    /\ ~(remaining # <<>> /\ safety_loops < MaxContinuations)
    /\ ei' = ei + 1
    /\ epc' = "slides"
    /\ UNCHANGED <<layouts, slides, orig, continuation, out, at, remaining,
                   cont_title, safety_loops, inserted, eresult>>

NextEnforce ==
    \/ EnforceBegin
    \/ EnforceSlide
    \/ ContinuationRaise
    \/ EnforceEnd

SpecEnforce == InitEnforce /\ [][NextEnforce]_vars

\* the enforcement with _get_placeholder_font_size in place
NextCont ==
    \/ EnforceBegin
    \/ EnforceSlide
    \/ ContinuationIter
    \/ ContinuationExit
    \/ EnforceEnd

SpecCont == InitEnforce /\ [][NextCont]_vars

(***************************************************************************)
(* PPTXService.generate_deck.                                              *)
(***************************************************************************)
\* line 781: layout_map keeps the last stored layout of a name; 0 when the
\* name has none
rule_named(rules, name) ==
    LET hits == {i \in 1..Len(rules) : rules[i].name = name}
    IN  IF hits = {} THEN 0 ELSE CHOOSE i \in hits : \A j \in hits : j <= i

\* lines 797-804: the preview of the contents slices a text content, which
\* raises TypeError for a content that is None
preview_raises(items) ==
    \E i \in 1..Len(items) : items[i].type = "text" /\ items[i].null

InitDeck ==
    /\ EnforceIdle
    /\ ExtractIdle
    /\ CapIdle
    /\ SessionIdle
    /\ PosIdle
    /\ ChunkIdle
    /\ template_loaded \in BOOLEAN
    /\ stored_rules \in DeckTemplates
    /\ \E n \in 1..MaxSpecs :
           slide_specs \in [1..n -> CallerSpecs(stored_rules)]
    /\ uploaded_images \in ImageSets
    /\ custom_theme \in CustomThemes
    /\ source_prs = stored_rules
    /\ image_order \in {<<>>, <<"a.png">>}
    /\ deck = <<>>
    /\ di = 1
    /\ reports = <<>>
    /\ dpc = "start"
    /\ dresult = "none"

\* _apply_theme_overrides: the stored layouts afterwards.  The size of a
\* text placeholder becomes that of the title font of the theme when its
\* name contains 'title' and that of the body font otherwise, if the theme
\* gives one
theme_size(placeholder, theme) ==
    IF occurrences(lower(placeholder.name), <<"t", "i", "t", "l", "e">>) # {}
    THEN theme.title_size ELSE theme.body_size

_apply_theme_overrides(rules, theme) ==
    [l \in 1..Len(rules) |->
        [rules[l] EXCEPT !.placeholders =
            [j \in 1..Len(rules[l].placeholders) |->
                IF /\ rules[l].placeholders[j].type = "text"
                   /\ theme_size(rules[l].placeholders[j], theme) # 0
                THEN [rules[l].placeholders[j]
                         EXCEPT !.properties.font_size =
                             theme_size(rules[l].placeholders[j], theme)]
                ELSE rules[l].placeholders[j]]]]

\* lines 754-778: without a template or its rules the call raises; else
\* the target starts without slides and the overrides of a custom theme
\* are applied to the stored rules
DeckBegin ==
    /\ dpc = "start"
    /\ UNCHANGED notDeckVars
    /\ IF template_loaded
       THEN /\ dpc' = "specs"
            /\ stored_rules' = IF custom_theme # NoTheme
                               THEN _apply_theme_overrides(stored_rules,
                                                           custom_theme)
                               ELSE stored_rules
            /\ UNCHANGED dresult
       ELSE /\ dpc' = "done"
            /\ dresult' = "NoTemplate"
            /\ UNCHANGED stored_rules
    /\ UNCHANGED <<template_loaded, slide_specs, custom_theme, source_prs,
                   uploaded_images, image_order, deck, di, reports>>

\* lines 786-830: one specification of the for loop
DeckSpec ==
    /\ dpc = "specs"
    /\ UNCHANGED notDeckVars
    /\ di <= Len(slide_specs)
    /\ IF ~slide_specs[di].is_dict
       THEN /\ dpc' = "done"
            /\ dresult' = "ValueError"
            /\ UNCHANGED <<deck, di>>
       ELSE IF preview_raises(slide_specs[di].placeholders)
       THEN /\ dpc' = "done"
            /\ dresult' = "TypeError"
            /\ UNCHANGED <<deck, di>>
       ELSE \E li \in {rule_named(stored_rules, slide_specs[di].layout_name)} :
                /\ di' = di + 1
                /\ UNCHANGED <<dpc, dresult>>
                /\ IF li = 0
                   THEN UNCHANGED deck
                   ELSE \E r \in {clone_slide_with_content(
                                      source_prs,
                                      stored_rules[li].layout_index,
                                      slide_specs[di].placeholders,
                                      uploaded_images, image_order, di)} :
                            deck' = deck \o r.slides
    /\ UNCHANGED <<template_loaded, stored_rules, slide_specs, custom_theme,
                   source_prs, uploaded_images, image_order, reports>>

\* lines 832-855: the shapes of the sample templates lie within the slide,
\* so _validate_and_fix_shape_positions changes nothing; the texts are
\* fitted, the deck is validated and returned as bytes unless a box still
\* overflows
DeckFinish ==
    /\ dpc = "specs"
    /\ UNCHANGED notDeckVars
    /\ di > Len(slide_specs)
    /\ \E e \in {_enforce_text_fit_by_measurement(deck)} :
           /\ deck' = e.deck
           /\ reports' = e.reports
           /\ dresult' = IF _validate_no_overflow(e.deck) > 0
                         THEN "StillOverflows" ELSE "bytes"
    /\ dpc' = "done"
    /\ UNCHANGED <<template_loaded, stored_rules, slide_specs, custom_theme,
                   source_prs, uploaded_images, image_order, di>>

NextDeck ==
    \/ DeckBegin
    \/ DeckSpec
    \/ DeckFinish

SpecDeck == InitDeck /\ [][NextDeck]_vars

(***************************************************************************)
(* Properties of the overflow enforcement.                                 *)
(***************************************************************************)
\* the text placeholders of a slide that a box of its layout governs, as
\* pairs <<position in the slide, layout placeholder>>
governed(slide) ==
    IF layout_named(slide.layout_name) = 0 THEN {}
    ELSE {<<i, lp>> \in
              (1..Len(slide.placeholders))
              \X {layouts[layout_named(slide.layout_name)].placeholders[j] :
                    j \in 1..Len(layouts[layout_named(slide.layout_name)]
                                     .placeholders)} :
              /\ lp.type = "text"
              /\ slide.placeholders[i].type = "text"
              /\ slide.placeholders[i].idx = lp.idx}

\* the content, wrapped at the estimated chars_per_line of the box, takes
\* no more than its lines_available
fits_box(content, props) ==
    Len(_wrap_text_into_lines(content,
                              _estimate_text_capacity(props).chars_per_line))
        <= _estimate_text_capacity(props).lines_available

\* C1: when the enforcement completes without raising, every text box of
\* every slide it returns, wrapped at the box's estimated chars_per_line,
\* takes at most lines_available lines.
C1_NoOverflow ==
    (epc = "done" /\ eresult = "returned") =>
        \A n \in 1..Len(out) :
            \A g \in governed(out[n]) :
                fits_box(out[n].placeholders[g[1]].content, g[2].properties)

\* the characters of a text that are not white space
squeeze(s) == SelectSeq(s, LAMBDA c : c \notin WS)

\* the slides of out that follow slide k of slides and precede slide k + 1:
\* its continuation slides
continuations_of(k) ==
    SubSeq(out, at[k] + 1,
           IF k < Len(at) THEN at[k + 1] - 1 ELSE Len(out))

\* the contents of the content boxes of a continuation slide, in order
RECURSIVE contents_of(_)
contents_of(phs) ==
    IF phs = <<>> THEN <<>>
    ELSE (IF \E lp \in {content_lps_of(layouts[continuation])[j] :
                           j \in 1..Len(content_lps_of(layouts[continuation]))} :
                 lp.idx = Head(phs).idx
          THEN Head(phs).content ELSE <<>>)
         \o contents_of(Tail(phs))

RECURSIVE continuation_text(_)
continuation_text(conts) ==
    IF conts = <<>> THEN <<>>
    ELSE contents_of(Head(conts).placeholders)
         \o continuation_text(Tail(conts))

\* the text boxes of slide k whose content the enforcement has changed
split_boxes(k) ==
    {i \in 1..Len(slides[k].placeholders) :
        squeeze(slides[k].placeholders[i].content)
            # squeeze(orig[k].placeholders[i].content)}

\* C2: for a text box that the enforcement has split, what is kept in the
\* box followed by the content of its continuation slides, in order, is the
\* original text (here compared without the white space, which a split at
\* line ends changes; the slides with one split box are compared, where
\* the continuation slides hold the rest of that box alone).
C2_LosslessSplit ==
    epc = "done" =>
        \A k \in 1..Len(at) :
            \A i \in split_boxes(k) :
                split_boxes(k) = {i} =>
                    squeeze(slides[k].placeholders[i].content)
                        \o squeeze(continuation_text(continuations_of(k)))
                    = squeeze(orig[k].placeholders[i].content)

\* slide k of the input leaves carry-over text when its boxes are processed
has_carry(k) ==
    /\ continuation # 0
    /\ layout_named(orig[k].layout_name) # 0
    /\ text_phs(layouts[IF layout_named(orig[k].layout_name) = 0 THEN 1
                        ELSE layout_named(orig[k].layout_name)]) # <<>>
    /\ enforce_slide(orig[k],
                     layouts[layout_named(orig[k].layout_name)]).remaining
           # <<>>

\* C6: when a slide leaves carry-over text and a continuation layout
\* exists, the enforcement returns normally and the slide is followed in
\* the output, before the next slide of the input, by a continuation slide
\* of the continuation layout that holds text.
C6_ContinuationInserted ==
    (epc = "done" /\ \E k \in 1..Len(orig) : has_carry(k)) =>
        /\ eresult = "returned"
        /\ \A k \in 1..Len(at) :
               has_carry(k) =>
                   /\ continuations_of(k) # <<>>
                   /\ continuations_of(k)[1].layout_name
                          = layouts[continuation].name
                   /\ continuation_text(continuations_of(k)) # <<>>

\* C5: when the while loop of a slide has used its MaxContinuations
\* iterations and carry-over text remains, the enforcement does not return
\* normally: it reports the bound.
C5_BoundReported ==
    (epc = "done" /\ eresult = "returned") =>
        ~(safety_loops = MaxContinuations /\ remaining # <<>>)

\* the wrapped lines of a carry-over text in the first content box of the
\* continuation layout
carry_lines(text) ==
    Len(_wrap_text_into_lines(
            text,
            _textbox_metrics_from_props(
                content_lps_of(layouts[continuation])[1].properties)
                .chars_per_line))

\* what is left to do: the slides not yet processed, each with its
\* iterations of the while loop; 0 when the enforcement has ended
enforce_measure ==
    IF epc = "done" THEN 0
    ELSE IF epc = "start" THEN Len(slides) * (MaxContinuations + 3) + 2
    ELSE IF epc = "slides"
    THEN (Len(slides) + 1 - ei) * (MaxContinuations + 3) + 1
    ELSE (Len(slides) + 1 - ei) * (MaxContinuations + 3) - 1 - safety_loops

\* C7: the while loop ends: every iteration that places a continuation
\* slide leaves fewer wrapped lines of carry-over text than it found, no
\* slide gets more than MaxContinuations continuation slides, and every
\* step of the enforcement lowers a measure that cannot fall below 0.
C7_LoopTerminates ==
    /\ [][(epc = "cont" /\ out' # out) =>
              /\ carry_lines(remaining') < carry_lines(remaining)
              /\ safety_loops' <= MaxContinuations]_vars
    /\ [](\A k \in 1..Len(at) :
              Len(continuations_of(k)) <= MaxContinuations)
    /\ [](enforce_measure >= 0)
    /\ [][enforce_measure' < enforce_measure]_vars

\* a slide has got its MaxContinuations continuation slides one by one
C7_Witness ==
    /\ epc = "cont"
    /\ safety_loops = MaxContinuations
    /\ Len(continuations_of(Len(at))) = MaxContinuations


(***************************************************************************)
(* Properties of generate_deck.                                            *)
(***************************************************************************)
\* specification k is a dict whose layout is stored
known_layout(k) ==
    /\ slide_specs[k].is_dict
    /\ rule_named(stored_rules, slide_specs[k].layout_name) # 0

\* the stored layout of specification k
rule_of(k) == stored_rules[rule_named(stored_rules, slide_specs[k].layout_name)]

\* binding specification k raises in the cloner
binding_error(k) ==
    /\ known_layout(k)
    /\ clone_slide_with_content(source_prs, rule_of(k).layout_index,
                                slide_specs[k].placeholders, uploaded_images,
                                image_order, k).raised

\* the placeholders of the deck, as <<slide, shape>>
deck_placeholders ==
    UNION {{<<n, j>> : j \in {i \in 1..Len(deck[n].shapes) :
                                  deck[n].shapes[i].idx >= 0}} :
              n \in 1..Len(deck)}

\* the assignment that specification deck[n].spec gives placeholder b of
\* the deck, 0 for none
assignment_of(b) ==
    content_pos(slide_specs[deck[b[1]].spec].placeholders,
                deck[b[1]].shapes[b[2]].idx)

RECURSIVE shapes_text(_)
shapes_text(shapes) ==
    IF shapes = <<>> THEN <<>>
    ELSE Head(shapes).text \o shapes_text(Tail(shapes))

\* the text of the deck: the texts of its boxes one after the other
RECURSIVE deck_text(_)
deck_text(d) ==
    IF d = <<>> THEN <<>>
    ELSE shapes_text(Head(d).shapes) \o deck_text(Tail(d))

\* the texts the specifications assign to placeholders of the deck
supplied_texts ==
    {slide_specs[deck[b[1]].spec].placeholders[assignment_of(b)].content :
        b \in {c \in deck_placeholders :
                  /\ ~binding_error(deck[c[1]].spec)
                  /\ assignment_of(c) # 0
                  /\ slide_specs[deck[c[1]].spec]
                         .placeholders[assignment_of(c)].type = "text"}}

\* C3: when generate_deck returns a deck, every text assigned to one of
\* its placeholders is contained in the text of the deck, white space
\* aside: nothing supplied is truncated.
C3_NeverTruncates ==
    (dpc = "done" /\ dresult = "bytes") =>
        \A t \in supplied_texts :
            occurrences(squeeze(deck_text(deck)), squeeze(t)) # {}

\* C4: a deck that generate_deck returns has no slide with a placeholder
\* that the slide's specification gave no assignment: a specification
\* omitting an index of its layout raises instead.
C4_MissingAssignmentRaises ==
    (dpc = "done" /\ dresult = "bytes") =>
        \A b \in deck_placeholders :
            ~binding_error(deck[b[1]].spec) => assignment_of(b) # 0

\* specification k names an unknown layout or assigns an index that is not
\* a placeholder index of its layout
offending(k) ==
    /\ slide_specs[k].is_dict
    /\ \/ ~known_layout(k)
       \/ \E i \in 1..Len(slide_specs[k].placeholders) :
              /\ slide_specs[k].placeholders[i].idx >= 0
              /\ \A j \in 1..Len(rule_of(k).placeholders) :
                     rule_of(k).placeholders[j].idx #
                         slide_specs[k].placeholders[i].idx

\* C8: a call of generate_deck whose specifications include one with an
\* unknown layout name or an index outside its layout's placeholders ends
\* with an error, never with a deck.
C8_OffendingSpecRejected ==
    (dpc = "done" /\ template_loaded
        /\ \E k \in 1..Len(slide_specs) : offending(k))
    => dresult # "bytes"

\* C9: generate_deck returns the deck's bytes only when no text box of the
\* whole deck is detected as overflowing after the enforcement, and it
\* raises for that reason only when one is.
C9_BytesOnlyWithoutOverflow ==
    dpc = "done" =>
        /\ dresult = "bytes" => overflowing_boxes(deck) = {}
        /\ dresult = "StillOverflows" => overflowing_boxes(deck) # {}

\* a deck is returned after the enforcement has shortened a box
C9_Witness == dpc = "done" /\ dresult = "bytes" /\ reports # <<>>

\* C10: when generate_deck is through, the slides of the deck are in the
\* order of their specifications, no slide comes from a specification
\* whose binding raised, every other specification with a stored layout
\* has its slide, and no specification made the whole call raise.
C10_BindingErrorAbortsOneSlide ==
    (dpc = "done" /\ template_loaded) =>
        /\ \A n, m \in 1..Len(deck) :
               n < m => deck[n].spec < deck[m].spec
        /\ \A n \in 1..Len(deck) : ~binding_error(deck[n].spec)
        /\ \A k \in 1..Len(slide_specs) :
               (known_layout(k) /\ ~binding_error(k)) =>
                   \E n \in 1..Len(deck) : deck[n].spec = k
        /\ dresult \notin {"ValueError", "TypeError"}

\* the stored layout whose slide deck slide n was cloned from
source_of(n) == stored_rules[rule_named(stored_rules, deck[n].layout_name)]

\* C11: every slide of the deck contains every static (non-placeholder)
\* shape of the template slide it was cloned from, unchanged.
C11_StaticShapesCopied ==
    \A n \in 1..Len(deck) :
        \A i \in 1..Len(source_of(n).shapes) :
            \E j \in 1..Len(deck[n].shapes) :
                deck[n].shapes[j] = source_of(n).shapes[i]

(***************************************************************************)
(* utils/slide_layout_extractor.py: extract_slide_as_layout.  A shape of   *)
(* the template slide is [name, is_placeholder, ph_type, top, kind, size,  *)
(* fails]: ph_type the placeholder type ("" for none), top in units of     *)
(* 45720 EMU, kind "text" for a shape with a text frame, "picture" for a   *)
(* picture and "other" else, size the font size of its first run in points *)
(* (0 for None), fails whether reading its properties raises.              *)
(***************************************************************************)
DefaultTitleSize == 44
DefaultBodySize == 18

TitleTypes == {"TITLE", "CENTER_TITLE", "SUBTITLE", "VERTICAL_TITLE"}

\* lines 768-791: the placeholder type, then the name, then the position:
\* top < 5143500 * 0.25 EMU, that is top * 8 < 225 units
is_likely_title(shape) ==
    \/ shape.is_placeholder /\ shape.ph_type \in TitleTypes
    \/ occurrences(lower(shape.name), <<"t", "i", "t", "l", "e">>) # {}
    \/ shape.top * 8 < 225

\* line 793
default_font(shape) ==
    IF is_likely_title(shape) THEN DefaultTitleSize ELSE DefaultBodySize

\* extract_shape_complete_properties, as far as the layout depends on it
extract_shape_complete_properties(shape, default_size) ==
    LET base == [name |-> shape.name, top |-> shape.top,
                 placeholder_idx |-> IF shape.is_placeholder THEN shape.ph_idx
                                     ELSE -1,
                 font_size |-> 0, is_design_image |-> FALSE]
    IN  IF shape.is_placeholder /\ shape.ph_type = "PICTURE"
        THEN base @@ [content_type |-> "image", is_placeholder |-> TRUE]
        ELSE IF shape.kind = "picture"
        THEN [base EXCEPT !.is_design_image = ~shape.is_placeholder]
             @@ [content_type |-> "image",
                 is_placeholder |-> shape.is_placeholder]
        ELSE IF shape.kind = "text"
        THEN [base EXCEPT !.font_size = IF shape.size # 0 THEN shape.size
                                        ELSE default_size]
             @@ [content_type |-> "text", is_placeholder |-> TRUE]
        ELSE base @@ [content_type |-> "static", is_placeholder |-> FALSE]

\* a counter that moves with every shape of the slide
next_counter_every_shape(counter, added) == counter + 1
\* lines 800-811: the counter moves when a placeholder was appended
next_counter(counter, added) == IF added THEN counter + 1 ELSE counter

TShape(name, is_ph, ph_type, ph_idx, top, kind, size, fails) ==
    [name |-> name, is_placeholder |-> is_ph, ph_type |-> ph_type,
     ph_idx |-> ph_idx, top |-> top, kind |-> kind, size |-> size,
     fails |-> fails]

\* shapes of sample template slides
TemplateShapes ==
    {TShape(<<"T", "i", "t", "l", "e">>, TRUE, "TITLE", 0, 10, "text", 0, FALSE),
     TShape(<<"B", "o", "d", "y">>, TRUE, "BODY", 1, 60, "text", 0, FALSE),
     TShape(<<"T", "e", "x", "t">>, TRUE, "BODY", 10, 20, "text", 0, FALSE),
     TShape(<<"P", "i", "c">>, TRUE, "PICTURE", 13, 60, "other", 0, FALSE),
     TShape(<<"L", "o", "g", "o">>, FALSE, "", 0, 5, "picture", 0, FALSE),
     TShape(<<"B", "o", "x">>, FALSE, "", 0, 100, "text", 12, FALSE),
     TShape(<<"G", "r", "o", "u", "p">>, FALSE, "", 0, 60, "other", 0, TRUE)}

InitExtract ==
    /\ EnforceIdle
    /\ DeckIdle
    /\ CapIdle
    /\ SessionIdle
    /\ PosIdle
    /\ ChunkIdle
    /\ \E n \in 1..MaxShapes : xshapes \in [1..n -> TemplateShapes]
    /\ layout_def = [placeholders |-> <<>>, shapes |-> <<>>]
    /\ internal_counter = 0
    /\ xi = 1
    /\ xpc = "shapes"

\* lines 758-825: one shape of the for loop; a shape whose properties
\* cannot be read is skipped
ExtractShape ==
    /\ xpc = "shapes"
    /\ UNCHANGED notExtractVars
    /\ xi <= Len(xshapes)
    /\ xi' = xi + 1
    /\ IF xshapes[xi].fails
       THEN /\ internal_counter' = next_counter(internal_counter, FALSE)
            /\ UNCHANGED layout_def
       ELSE \E sp \in {extract_shape_complete_properties(
                           xshapes[xi], default_font(xshapes[xi]))} :
                /\ internal_counter' =
                       next_counter(internal_counter, sp.is_placeholder)
                /\ layout_def' =
                       IF sp.is_placeholder
                       THEN [layout_def EXCEPT !.placeholders =
                               Append(@, [idx |-> internal_counter,
                                          real_pptx_idx |-> sp.placeholder_idx,
                                          type |-> sp.content_type,
                                          name |-> sp.name,
                                          source |-> xi,
                                          properties |-> sp])]
                       ELSE [layout_def EXCEPT !.shapes = Append(@, sp)]
    /\ UNCHANGED <<xshapes, xpc>>

\* lines 827-833: the layout is returned
ExtractEnd ==
    /\ xpc = "shapes"
    /\ UNCHANGED notExtractVars
    /\ xi > Len(xshapes)
    /\ xpc' = "done"
    /\ UNCHANGED <<xshapes, layout_def, internal_counter, xi>>

NextExtract ==
    \/ ExtractShape
    \/ ExtractEnd

SpecExtract == InitExtract /\ [][NextExtract]_vars

\* C12: in the layout extract_slide_as_layout builds and returns, the
\* placeholder at list position i (from 0) has idx i, also when shapes of
\* the slide were skipped because reading them failed.
C12_IndicesPositional ==
    \A i \in 1..Len(layout_def.placeholders) :
        layout_def.placeholders[i].idx = i - 1

\* a layout with two placeholders, the second extracted after a shape
\* that failed
C12_Witness ==
    /\ xpc = "done"
    /\ Len(layout_def.placeholders) = 2
    /\ \E k \in 1..Len(xshapes) :
           /\ xshapes[k].fails
           /\ k < layout_def.placeholders[2].source

\* C20: a placeholder of body type whose name does not say title and
\* whose run has no font size gets the body font size, wherever it lies.
C20_SemanticRoleFirst ==
    \A i \in 1..Len(layout_def.placeholders) :
        LET shape == xshapes[layout_def.placeholders[i].source]
        IN  (/\ shape.is_placeholder /\ shape.ph_type = "BODY"
             /\ occurrences(lower(shape.name), <<"t", "i", "t", "l", "e">>) = {}
             /\ shape.size = 0)
            => layout_def.placeholders[i].properties.font_size
                   = DefaultBodySize

\* chars_per_line times lines_available of _textbox_metrics_from_props
\* for a box with a font size: the capacity the enforcement uses
enforced_capacity(props) ==
    _textbox_metrics_from_props(props).chars_per_line
        * _textbox_metrics_from_props(props).lines_available

\* C30: for a box with a font size, neither max_chars of
\* _calculate_text_capacity nor chars of _estimate_text_capacity is more
\* than chars_per_line times lines_available of
\* _textbox_metrics_from_props for the same box.
C30_AdvertisedWithinEnforced ==
    (~_metrics_raises(cprops) /\ ~cresult.raised) =>
        /\ cwhich = "capacity" =>
               cresult.max_chars <= enforced_capacity(cprops)
        /\ cwhich = "estimate" =>
               cresult.chars <= enforced_capacity(cprops)

\* C28: whenever layouts are stored (get_stored_rules returns them), the
\* template file they came with is still there, after any sequence of
\* template loads that succeed or fail, image stores and clears.
C28_RulesHaveTemplate ==
    stored_rules # <<>> => template_loaded

\* slide_cloner.py, lines 47-66: the positions of the shapes of the source
\* slide at which placeholder_counter moves, in the order of the slide
native_placeholders(shapes) ==
    SelectSeq([j \in 1..Len(shapes) |-> j],
              LAMBDA j : shapes[j].is_placeholder)

\* lines 58-61: the position of the shape _copy_all_shapes fills for the
\* content with the given idx, 0 when the counter never reaches it
filled_shape(shapes, idx) ==
    IF idx + 1 \in 1..Len(native_placeholders(shapes))
    THEN native_placeholders(shapes)[idx + 1]
    ELSE 0

\* C26: the idx the extractor gives a placeholder addresses, in the
\* cloner, the shape of the source slide the placeholder was extracted
\* from.
C26_SameShapeAddressed ==
    \A i \in 1..Len(layout_def.placeholders) :
        filled_shape(xshapes, layout_def.placeholders[i].idx)
            = layout_def.placeholders[i].source

(***************************************************************************)
(* AIService._calculate_text_capacity, in the units of                     *)
(* _textbox_metrics_from_props; a missing font size counts as 18 pt.       *)
(***************************************************************************)
FallbackFontSize == 18

_calculate_text_capacity(props) ==
    LET margin_left == IF props.margin_left # 0 THEN props.margin_left
                       ELSE DefaultMarginLR
        margin_right == IF props.margin_right # 0 THEN props.margin_right
                        ELSE DefaultMarginLR
        margin_top == IF props.margin_top # 0 THEN props.margin_top
                      ELSE DefaultMarginTB
        margin_bottom == IF props.margin_bottom # 0 THEN props.margin_bottom
                         ELSE DefaultMarginTB
        usable_width == Max(0, props.width - margin_left - margin_right)
        usable_height == Max(0, props.height - margin_top - margin_bottom)
        font_size == IF props.font_size # 0 THEN props.font_size
                     ELSE FallbackFontSize
        line_spacing == IF props.line_spacing # 0 THEN props.line_spacing
                        ELSE DefaultLineSpacing
        line_height == Max(font_size * line_spacing * 130, font_size * 16000)
        chars_per_line ==
            IF font_size > 0 /\ usable_width > 0
            THEN Max(1, (usable_width * 36) \div (font_size * 12)) ELSE 0
        lines_available ==
            IF line_height > 0 /\ usable_height > 0
            THEN Max(1, (usable_height * 36000) \div line_height) ELSE 0
    IN  [chars_per_line |-> chars_per_line,
         lines_available |-> lines_available,
         max_chars |-> Max(0, chars_per_line * lines_available),
         raised |-> FALSE]

WidthStep == 12
HeightStep == 7

\* the boxes the estimators are called with
BoxInputs ==
    {[width |-> w * WidthStep, height |-> h * HeightStep, font_size |-> f,
      line_spacing |-> ls, margin_left |-> 0, margin_right |-> 0,
      margin_top |-> 0, margin_bottom |-> 0] :
        w \in 0..MaxWidthSteps, h \in 0..MaxHeightSteps,
        f \in {0, 12, 18}, ls \in {0, 100, 200}}

InitCapacity ==
    /\ EnforceIdle
    /\ DeckIdle
    /\ ExtractIdle
    /\ CapIdle
    /\ SessionIdle
    /\ PosIdle
    /\ ChunkIdle

\* a call of _textbox_metrics_from_props; it raises ValueError for a box
\* without font size
MetricsCall ==
    /\ UNCHANGED notCapVars
    /\ \E props \in BoxInputs :
           /\ cprops' = props
           /\ cwhich' = "metrics"
           /\ cresult' =
                  IF _metrics_raises(props)
                  THEN [chars_per_line |-> 0, lines_available |-> 0,
                        raised |-> TRUE]
                  ELSE [chars_per_line |->
                            _textbox_metrics_from_props(props).chars_per_line,
                        lines_available |->
                            _textbox_metrics_from_props(props).lines_available,
                        raised |-> FALSE]

\* a call of _calculate_text_capacity
CapacityCall ==
    /\ UNCHANGED notCapVars
    /\ \E props \in BoxInputs :
           /\ cprops' = props
           /\ cwhich' = "capacity"
           /\ cresult' = _calculate_text_capacity(props)

\* a call of _estimate_text_capacity; it does not raise
EstimateCall ==
    /\ UNCHANGED notCapVars
    /\ \E props \in BoxInputs :
           /\ cprops' = props
           /\ cwhich' = "estimate"
           /\ cresult' =
                  [chars |-> _estimate_text_capacity(props).chars,
                   chars_per_line |->
                       _estimate_text_capacity(props).chars_per_line,
                   lines_available |->
                       _estimate_text_capacity(props).lines_available,
                   raised |-> FALSE]

NextCapacity ==
    \/ MetricsCall
    \/ CapacityCall
    \/ EstimateCall

SpecCapacity == InitCapacity /\ [][NextCapacity]_vars

\* width and height of a box less its margins, the defaults for margins
\* that are absent, not clamped
usable_width_of(props) ==
    props.width
        - (IF props.margin_left # 0 THEN props.margin_left
           ELSE DefaultMarginLR)
        - (IF props.margin_right # 0 THEN props.margin_right
           ELSE DefaultMarginLR)

usable_height_of(props) ==
    props.height
        - (IF props.margin_top # 0 THEN props.margin_top
           ELSE DefaultMarginTB)
        - (IF props.margin_bottom # 0 THEN props.margin_bottom
           ELSE DefaultMarginTB)

\* _textbox_metrics_from_props or _calculate_text_capacity was called and
\* returned
estimated == cwhich \in {"metrics", "capacity"} /\ ~cresult.raised

\* C13: an estimate for a box of zero or negative usable width has
\* chars_per_line 0, one for zero or negative usable height has
\* lines_available 0, and neither is ever negative.
C13_ZeroCapacity ==
    estimated =>
        /\ usable_width_of(cprops) <= 0 => cresult.chars_per_line = 0
        /\ usable_height_of(cprops) <= 0 => cresult.lines_available = 0
        /\ cresult.chars_per_line >= 0
        /\ cresult.lines_available >= 0

\* C14: an estimate never has more characters per line than
\* floor(usable_width_pt / (font_size * 1.1)) nor more lines than
\* floor(usable_height_pt / (font_size * max(line_spacing, 1.0) * 1.5)).
C14_WithinFormula ==
    (estimated /\ cprops.font_size > 0) =>
        /\ cresult.chars_per_line <=
               (Max(0, usable_width_of(cprops)) * 36)
                   \div (cprops.font_size * 11)
        /\ cresult.lines_available <=
               (Max(0, usable_height_of(cprops)) * 3600)
                   \div (cprops.font_size
                            * Max(cprops.line_spacing, 100) * 15)

\* two calls in a row of the same estimator that both returned, for boxes
\* of the same font size, line spacing and margins
same_style_calls ==
    /\ cwhich = cwhich' /\ estimated /\ ~cresult'.raised
    /\ [cprops EXCEPT !.width = 0, !.height = 0]
           = [cprops' EXCEPT !.width = 0, !.height = 0]

\* C15: of two estimates for boxes of the same font size, line spacing
\* and margins, the one for the wider box has at least as many characters
\* per line and the one for the higher box at least as many lines.
C15_Monotone ==
    [][same_style_calls =>
          /\ cprops.width <= cprops'.width =>
                 cresult.chars_per_line <= cresult'.chars_per_line
          /\ cprops.height <= cprops'.height =>
                 cresult.lines_available <= cresult'.lines_available]_vars

\* an estimate above both floors: the box is wide and high enough for
\* its size to matter
C15_Witness ==
    /\ cwhich = "metrics" /\ ~cresult.raised
    /\ cresult.chars_per_line > 5 /\ cresult.lines_available > 1

(***************************************************************************)
(* A session of PPTXService: templates are extracted or loaded and images  *)
(* stored and cleared.  A template file is given by what is read from it:  *)
(* the layouts extract_slide_as_layout makes of its slides, the typefaces  *)
(* of the major and minor latin font of its theme ("" when the theme       *)
(* names none) and the number of colours of its colour scheme that have a  *)
(* value.                                                                  *)
(***************************************************************************)
ThemeFonts == {"", "Calibri", "Arial"}

TemplateFiles ==
    {[slides |-> sl, major_font |-> ma, minor_font |-> mi, colors |-> c] :
        sl \in DeckTemplates \cup {<<>>}, ma \in ThemeFonts,
        mi \in ThemeFonts, c \in 0..MaxColors}

FileNames == {"a.png", "b.png"}
ImageData == {"A", "B"}

\* lines 311-315, 357-365: the fonts of the theme, 'Calibri' where the
\* theme names none
theme_fonts(file) ==
    [title |-> IF file.major_font # "" THEN file.major_font ELSE "Calibri",
     body |-> IF file.minor_font # "" THEN file.minor_font ELSE "Calibri"]

\* a comparison that matches no typeface as it is spelt in a theme
default_fonts_lowercase(fonts) ==
    fonts.title = "calibri" /\ fonts.body = "calibri"
\* lines 452-454: both fonts are the defaults
default_fonts(fonts) ==
    fonts.title = "Calibri" /\ fonts.body = "Calibri"

\* extract_complete_theme_from_zip: [raised, fonts, color_scheme]; it
\* raises for default fonts and for a colour scheme without colours
extract_complete_theme_from_zip(file) ==
    [raised |-> default_fonts(theme_fonts(file)) \/ file.colors = 0,
     fonts |-> theme_fonts(file),
     color_scheme |-> file.colors]

\* _validate_complete_extraction: whether it raises.  The theme data must
\* have font names and colours, there must be a layout, and every text
\* placeholder must have a font size
_validate_complete_extraction(rules, theme_data) ==
    \/ theme_data.fonts.title = "" \/ theme_data.fonts.body = ""
    \/ theme_data.color_scheme = 0
    \/ rules = <<>>
    \/ \E l \in 1..Len(rules) : \E j \in 1..Len(rules[l].placeholders) :
           /\ rules[l].placeholders[j].type = "text"
           /\ rules[l].placeholders[j].properties.font_size = 0

\* lines 59-115: whether extract_rules_from_file raises for a file: it
\* has no slides, extract_all_slides_as_layouts raises in the theme
\* extraction it begins with, or the validation fails
extraction_raises(file) ==
    \/ file.slides = <<>>
    \/ extract_complete_theme_from_zip(file).raised
    \/ _validate_complete_extraction(file.slides,
                                     extract_complete_theme_from_zip(file))

InitSession ==
    /\ EnforceIdle
    /\ DeckIdle
    /\ ExtractIdle
    /\ CapIdle
    /\ SessionIdle
    /\ PosIdle
    /\ ChunkIdle

\* what a call other than generate_deck leaves alone
notSessionVars ==
    <<aiVars, extractVars, capVars, posVars, chunkVars, slide_specs,
      custom_theme, deck, di, reports, dpc, dresult>>

\* extract_rules_from_file: the images are dropped (line 53) and the file
\* is saved; when the extraction raises, the file is removed again and
\* the rules stored before stay, else the layouts of the file are stored
\* (categorize_layouts adds its category fields to them, which the
\* layouts here do not carry)
ExtractRulesFromFile ==
    /\ dpc = "idle"
    /\ UNCHANGED notSessionVars
    /\ \E file \in TemplateFiles :
           /\ file_storage' = file
           /\ uploaded_images' = <<>>
           /\ UNCHANGED <<image_order, store_calls>>
           /\ last_call' = "extract_rules_from_file"
           /\ IF extraction_raises(file)
              THEN /\ call_raised' = TRUE
                   /\ template_loaded' = FALSE
                   /\ source_prs' = <<>>
                   /\ UNCHANGED stored_rules
              ELSE /\ call_raised' = FALSE
                   /\ template_loaded' = TRUE
                   /\ source_prs' = file.slides
                   /\ stored_rules' = file.slides

\* the files a template is loaded from are those of templates that were
\* extracted and saved before
SavedFiles == {file \in TemplateFiles : ~extraction_raises(file)}

\* load_template_file: the images are dropped (line 35), the file is
\* saved and the layouts passed are stored as they are
LoadTemplateFile ==
    /\ dpc = "idle"
    /\ UNCHANGED notSessionVars
    /\ \E file \in SavedFiles, rules \in DeckTemplates :
           /\ file_storage' = file
           /\ uploaded_images' = <<>>
           /\ UNCHANGED <<image_order, store_calls>>
           /\ last_call' = "load_template_file"
           /\ call_raised' = FALSE
           /\ template_loaded' = TRUE
           /\ source_prs' = file.slides
           /\ stored_rules' = rules

\* store_image: the data is stored under the file name, and the name is
\* appended to image_order unless it is there already
StoreImage ==
    /\ dpc = "idle"
    /\ UNCHANGED notSessionVars
    /\ Len(store_calls) < MaxImages
    /\ \E filename \in FileNames, data \in ImageData :
           /\ uploaded_images' =
                  IF \E i \in 1..Len(uploaded_images) :
                         uploaded_images[i].filename = filename
                  THEN [i \in 1..Len(uploaded_images) |->
                           IF uploaded_images[i].filename = filename
                           THEN [filename |-> filename, data |-> data]
                           ELSE uploaded_images[i]]
                  ELSE Append(uploaded_images,
                              [filename |-> filename, data |-> data])
           /\ image_order' =
                  IF \E i \in 1..Len(image_order) : image_order[i] = filename
                  THEN image_order ELSE Append(image_order, filename)
           /\ store_calls' =
                  Append(store_calls, [filename |-> filename, data |-> data])
    /\ last_call' = "store_image"
    /\ call_raised' = FALSE
    /\ UNCHANGED <<template_loaded, stored_rules, source_prs, file_storage>>

\* clear_images
ClearImages ==
    /\ dpc = "idle"
    /\ UNCHANGED notSessionVars
    /\ uploaded_images' = <<>>
    /\ image_order' = <<>>
    /\ store_calls' = <<>>
    /\ last_call' = "clear_images"
    /\ call_raised' = FALSE
    /\ UNCHANGED <<template_loaded, stored_rules, source_prs, file_storage>>

NextSession ==
    \/ ExtractRulesFromFile
    \/ LoadTemplateFile
    \/ StoreImage
    \/ ClearImages

SpecSession == InitSession /\ [][NextSession]_vars

\* C16: after extract_rules_from_file, load_template_file or clear_images
\* no image reference stored earlier is left in image_order or in
\* uploaded_images.
C16_ImagesReplacedWholesale ==
    last_call \in {"extract_rules_from_file", "load_template_file",
                   "clear_images"} =>
        image_order = <<>> /\ uploaded_images = <<>>

\* the images stored since the last clear_images are still held: no
\* template was extracted or loaded after one of them was stored
images_held ==
    \A k \in 1..Len(store_calls) : \E i \in 1..Len(uploaded_images) :
        uploaded_images[i].filename = store_calls[k].filename

\* C17: image_index i resolves to the data of the i-th image stored since
\* the last clear_images, whatever the file names are.
C17_IndexIsInsertionOrder ==
    images_held =>
        \A i \in 1..Len(store_calls) :
            image_of([image_index |-> i - 1], uploaded_images, image_order)
                = store_calls[i].data

\* the theme of a file has no font other than the default or no colour
theme_incomplete(file) ==
    \/ /\ file.major_font \in {"", "Calibri"}
       /\ file.minor_font \in {"", "Calibri"}
    \/ file.colors = 0

\* C19: extract_rules_from_file raises and leaves the stored rules as
\* they are for a file whose theme has only default fonts or no colour,
\* and it stores rules only for a file whose theme has a font that is not
\* the default and a colour.
C19_IncompleteThemeRejected ==
    [][last_call' = "extract_rules_from_file" =>
          /\ theme_incomplete(file_storage') =>
                 call_raised' /\ stored_rules' = stored_rules
          /\ ~call_raised' =>
                 /\ ~theme_incomplete(file_storage')
                 /\ stored_rules' = file_storage'.slides]_vars

\* a file with slides and a theme font of its own is rejected for its
\* colour scheme, and the rules of the template before stay stored
C19_Witness ==
    /\ last_call = "extract_rules_from_file" /\ call_raised
    /\ file_storage.slides # <<>> /\ file_storage.major_font = "Arial"
    /\ file_storage.colors = 0
    /\ stored_rules # <<>>

\* C18: the layouts held in stored_rules are the same before and after
\* every step of generate_deck, with or without a custom theme.
C18_StoredLayoutsReadOnly == [][stored_rules' = stored_rules]_vars

\* the title boxes of the layout of slide k of the result that the slide
\* has a text for, as positions in the placeholders of the slide
title_boxes_of(k) ==
    IF layout_named(out[k].layout_name) = 0 THEN {}
    ELSE {i \in 1..Len(out[k].placeholders) :
             /\ out[k].placeholders[i].type = "text"
             /\ \E j \in 1..Len(layouts[layout_named(out[k].layout_name)]
                                     .placeholders) :
                    LET lp == layouts[layout_named(out[k].layout_name)]
                                  .placeholders[j]
                    IN  /\ lp.type = "text"
                        /\ is_title_box(lp)
                        /\ slide_text_pos(out[k], lp.idx) = i}

\* C22: when the enforcement has run and returned, no title box of a
\* slide holds more than 60 characters.
C22_TitleBoxBudget ==
    (epc = "done" /\ eresult = "returned" /\ continuation # 0) =>
        \A k \in 1..Len(out) : \A i \in title_boxes_of(k) :
            Len(out[k].placeholders[i].content) <= ShortTitleMax

\* the position of the text for the first title box of a layout among the
\* placeholders of a slide, 0 when there is none
title_pos(slide, layout) ==
    IF first_title(layout) = <<>> THEN 0
    ELSE slide_text_pos(slide, first_title(layout)[1].idx)

\* the title of slide k of the result as the enforcement left it
kept_title(k) ==
    IF layout_named(out[at[k]].layout_name) = 0 THEN <<>>
    ELSE IF title_pos(out[at[k]],
                      layouts[layout_named(out[at[k]].layout_name)]) = 0
    THEN <<>>
    ELSE strip(out[at[k]].placeholders[
                   title_pos(out[at[k]],
                             layouts[layout_named(out[at[k]].layout_name)])]
               .content)

\* C23: the title of every continuation slide of a slide with a title is
\* that title followed by " (cont.)" and has at most 60 characters.
C23_ContinuationTitle ==
    \A k \in 1..Len(at) :
        kept_title(k) # <<>> =>
            \A c \in 1..Len(continuations_of(k)) :
                LET cs == continuations_of(k)[c]
                    tp == title_pos(cs, layouts[continuation])
                IN  tp # 0 =>
                        /\ cs.placeholders[tp].content =
                               kept_title(k) \o <<" ", "(", "c", "o", "n",
                                                  "t", ".", ")">>
                        /\ Len(cs.placeholders[tp].content) <= ShortTitleMax

(***************************************************************************)
(* _validate_and_fix_shape_positions (pptx_service.py, lines 281-366).     *)
(***************************************************************************)
ShrinkMargin == 100000
ShrunkOffset == 50000

\* lines 326-338 (and 340-352 for the vertical axis): the position and
\* the size along one axis of a shape whose far edge, as computed from
\* the position it came with, lies beyond the slide; start is the position
\* after lines 316-319 (321-324)
fix_far_edge(start, size, far_edge, slide_size) ==
    IF far_edge > slide_size
    THEN IF size < slide_size
         THEN [start |-> slide_size - size, size |-> size]
         ELSE [start |-> ShrunkOffset, size |-> slide_size - ShrinkMargin]
    ELSE [start |-> start, size |-> size]

\* lines 305-352 along one axis: right (bottom) is computed at lines
\* 309-310 from the position the shape came with, before a negative
\* position is set to 0
fix_axis(start, size, slide_size) ==
    fix_far_edge(IF start < 0 THEN 0 ELSE start, size, start + size,
                 slide_size)

\* lines 298-352 for one shape
fix_shape_position(shape, slide_width, slide_height) ==
    LET h == fix_axis(shape.left, shape.width, slide_width)
        v == fix_axis(shape.top, shape.height, slide_height)
    IN  [left |-> h.start, width |-> h.size,
         top |-> v.start, height |-> v.size]

\* lines 289-352
_validate_and_fix_shape_positions(prs) ==
    [prs EXCEPT !.slides =
        [n \in 1..Len(prs.slides) |->
            [j \in 1..Len(prs.slides[n]) |->
                fix_shape_position(prs.slides[n][j], prs.slide_width,
                                   prs.slide_height)]]]

MaxPositioned == 2

\* the standard 16:9 slide of the comment at line 288
SlideSizes == {[slide_width |-> 9144000, slide_height |-> 5143500]}

\* shapes inside the slide, hanging over each edge, and larger than the
\* slide
PositionedShapes ==
    {[left |-> l, top |-> t, width |-> w, height |-> h] :
        l \in {-500000, 0, 9000000}, w \in {914400, 9144000, 9400000},
        t \in {-500000, 5000000}, h \in {914400, 5400000}}

InitPosition ==
    /\ \E size \in SlideSizes, n \in 1..MaxPositioned :
           \E shapes \in [1..n -> PositionedShapes] :
               presentation = [slide_width |-> size.slide_width,
                               slide_height |-> size.slide_height,
                               slides |-> <<shapes>>]
    /\ ppc = "start"
    /\ EnforceIdle
    /\ DeckIdle
    /\ ExtractIdle
    /\ CapIdle
    /\ SessionIdle
    /\ ChunkIdle

ValidateAndFixShapePositions ==
    /\ ppc = "start"
    /\ presentation' = _validate_and_fix_shape_positions(presentation)
    /\ ppc' = "done"
    /\ UNCHANGED notPosVars

NextPosition == ValidateAndFixShapePositions

SpecPosition == InitPosition /\ [][NextPosition]_vars

\* a shape lies within a slide of the given size
within_slide(shape, slide_width, slide_height) ==
    /\ shape.left >= 0
    /\ shape.top >= 0
    /\ shape.left + shape.width <= slide_width
    /\ shape.top + shape.height <= slide_height

\* C25: after _validate_and_fix_shape_positions every shape of every slide
\* lies within the slide, whatever its position and size were.
C25_ShapesWithinSlide ==
    ppc = "done" =>
        \A n \in 1..Len(presentation.slides) :
            \A j \in 1..Len(presentation.slides[n]) :
                within_slide(presentation.slides[n][j],
                             presentation.slide_width,
                             presentation.slide_height)

(***************************************************************************)
(* AIService.intelligent_chunk_with_layouts (lines 576-773) with the       *)
(* warnings of _validate_aesthetic_choices and _validate_layout_diversity  *)
(* that lines 635-639 count as critical.  The warnings of                  *)
(* _validate_slide_types never are: none of them has 'Exceeds by:',        *)
(* 'overflow', 'TITLE/HEADER', 'idx', 'overused', 'same layout' or         *)
(* 'diversity' in it.  The planner gives no slide a slide_type, so every   *)
(* slide is a 'content' slide (line 593).                                  *)
(***************************************************************************)
TitleWarnMax == 60

\* _validate_aesthetic_choices, lines 2735-2790, for one text placeholder
\* of a slide: whether it gets a TITLE/HEADER VIOLATION, TEXT OVERFLOW,
\* TEXT MAY OVERFLOW or UNDER-FILLED idx warning
aesthetic_issue(ph, layout) ==
    LET lps == SelectSeq(layout.placeholders,
                         LAMBDA p : p.idx = ph.idx /\ p.type = "text")
    IN  /\ lps # <<>>
        /\ LET props == lps[1].properties
               max_chars == _estimate_text_capacity(props).chars
           IN  IF is_title_box(lps[1]) /\ Len(ph.content) > TitleWarnMax
               THEN TRUE
               ELSE IF ph.content # <<>>
               THEN IF _metrics_raises(props)
                    THEN Len(ph.content) * 10 > max_chars * 7
                    ELSE _split_text_to_fit_box(ph.content, props).rem # <<>>
               ELSE max_chars > 500

\* _validate_layout_diversity, lines 2809-2883: whether it warns
diversity_issue(s) ==
    /\ Len(s) >= 3
    /\ \/ /\ Len(s) >= 5
          /\ \E i \in 1..Len(s) :
                 Cardinality({j \in 1..Len(s) :
                                 s[j].layout_name = s[i].layout_name}) * 100
                     > 40 * Len(s)
       \/ \E i \in 2..Len(s) : s[i - 1].layout_name = s[i].layout_name
       \/ /\ Len(s) >= 6
          /\ Cardinality({s[j].layout_name : j \in 1..Len(s)}) * 10
                 < 4 * Len(s)

\* lines 619-640: whether critical_issues is not empty
critical_issues(s) ==
    \/ \E k \in 1..Len(s) :
           /\ layout_named(s[k].layout_name) # 0
           /\ \E i \in 1..Len(s[k].placeholders) :
                  /\ s[k].placeholders[i].type = "text"
                  /\ aesthetic_issue(s[k].placeholders[i],
                                     layouts[layout_named(s[k].layout_name)])
    \/ diversity_issue(s)

\* lines 743-748: the image indices the slides use
used_image_indices(s) ==
    UNION {{s[k].placeholders[i].image_index :
               i \in {j \in 1..Len(s[k].placeholders) :
                         /\ s[k].placeholders[j].type = "image"
                         /\ "image_index" \in DOMAIN s[k].placeholders[j]}} :
           k \in 1..Len(s)}

InitChunk ==
    /\ layouts \in LayoutSets
    /\ slides = <<>>
    /\ orig = <<>>
    /\ continuation = 0
    /\ out = <<>>
    /\ at = <<>>
    /\ ei = 1
    /\ remaining = <<>>
    /\ cont_title = <<>>
    /\ safety_loops = 0
    /\ inserted = 0
    /\ epc = "idle"
    /\ eresult = "none"
    /\ n_images \in 0..1
    /\ structure = <<>>
    /\ kpc = "request"
    /\ DeckIdle
    /\ ExtractIdle
    /\ CapIdle
    /\ SessionIdle
    /\ PosIdle

\* lines 576-640 and 740: the planner's first response; with critical
\* issues the planner is asked again, else the enforcement is called
ChunkResponse ==
    /\ kpc = "request"
    /\ UNCHANGED notChunkVars
    /\ \E n \in 1..MaxSlides :
           \E s \in [1..n -> PlannerSlides(layouts)] :
               /\ slides' = s
               /\ orig' = s
               /\ IF critical_issues(s)
                  THEN kpc' = "retry" /\ UNCHANGED epc
                  ELSE kpc' = "enforce" /\ epc' = "start"
    /\ UNCHANGED <<layouts, continuation, out, at, ei, remaining, cont_title,
                   safety_loops, inserted, eresult, n_images, structure>>

\* lines 693-735: the second response has slides, and they are returned
ChunkRetry ==
    /\ kpc = "retry"
    /\ UNCHANGED notChunkVars
    /\ \E n \in 1..MaxSlides :
           \E s \in [1..n -> PlannerSlides(layouts)] :
               /\ slides' = s
               /\ structure' = s
    /\ kpc' = "returned"
    /\ UNCHANGED <<layouts, orig, continuation, out, at, ei, remaining,
                   cont_title, safety_loops, inserted, epc, eresult, n_images>>

\* lines 693-740: the second request fails or its response has no
\* slides; the enforcement is called for the slides of the first
ChunkRetryFailed ==
    /\ kpc = "retry"
    /\ UNCHANGED notChunkVars
    /\ kpc' = "enforce"
    /\ epc' = "start"
    /\ UNCHANGED <<layouts, slides, orig, continuation, out, at, ei,
                   remaining, cont_title, safety_loops, inserted, eresult,
                   n_images, structure>>

\* lines 740-773: the enforcement has ended; what it raised is raised as
\* ValueError, as is an image that no slide uses or an index without
\* image, else the slides it returned are returned
ChunkReturn ==
    /\ kpc = "enforce"
    /\ epc = "done"
    /\ UNCHANGED notChunkVars
    /\ IF /\ eresult = "returned"
          /\ n_images > 0 => used_image_indices(out) = 0..(n_images - 1)
       THEN structure' = out /\ kpc' = "returned"
       ELSE kpc' = "raised" /\ UNCHANGED structure
    /\ UNCHANGED <<aiVars, n_images>>

NextChunk ==
    \/ ChunkResponse
    \/ ChunkRetry
    \/ ChunkRetryFailed
    \/ NextEnforce
    \/ ChunkReturn

SpecChunk == InitChunk /\ [][NextChunk]_vars

\* C27: the slides intelligent_chunk_with_layouts returns are those
\* _enforce_zero_overflow_by_splitting returned, on every path to a
\* return.
C27_ReturnedAfterEnforcement ==
    kpc = "returned" =>
        /\ epc = "done" /\ eresult = "returned"
        /\ structure = out

\* C24: every overflow report of the fitting pass has the lengths of the
\* original and of the fitted text of its box, and the fitted text
\* followed by the lost span it reports is the original text.
C24_ReportAccountsForText ==
    [][\A i \in 1..Len(reports') :
          LET r == reports'[i]
              original_text == deck[r.slide_number].shapes[r.shape].text
              fitted_text == deck'[r.slide_number].shapes[r.shape].text
          IN  /\ r.original_length = Len(original_text)
              /\ r.fitted_length = Len(fitted_text)
              /\ fitted_text \o r.overflow_content = original_text]_vars

\* a text-only layout with a content box that is not a title box
text_only_with_content(layout) ==
    img_phs(layout) = <<>> /\ content_lps_of(layout) # <<>>

\* C21: the continuation layout chosen is a text-only layout with a
\* content box and no other such layout has a lower negative-space ratio,
\* i.e. a larger content area.
C21_LowestNegativeSpace ==
    (epc # "start" /\ continuation # 0) =>
        /\ text_only_with_content(layouts[continuation])
        /\ \A j \in 1..Len(layouts) :
               text_only_with_content(layouts[j]) =>
                   content_area(layouts[j])
                       <= content_area(layouts[continuation])

\* C29: when a layout has no image placeholder, a content box and at most
\* 70% negative space, a continuation layout is chosen and the slides are
\* not returned as they came.
C29_ContinuationLayoutFound ==
    (/\ epc # "start"
     /\ \E i \in 1..Len(layouts) :
            /\ text_only_with_content(layouts[i])
            /\ ~negative_space_over_70(layouts[i])) =>
        continuation # 0

Init ==
    \/ InitEnforce \/ InitDeck \/ InitExtract \/ InitCapacity \/ InitSession
    \/ InitPosition \/ InitChunk
Next ==
    \/ NextCont \/ ContinuationRaise \/ NextDeck \/ NextExtract
    \/ NextCapacity \/ NextSession \/ NextPosition \/ NextChunk
Spec == Init /\ [][Next]_vars
=============================================================================
